---- MODULE Spec2Model ----
(***************************************************************************)
(* A model of the Legifrance ingestion and tree-cache scripts:             *)
(*   scripts/ingest_legifrance_pg.py     archives -> documents table       *)
(*   scripts/precalculate_all_trees.py   documents -> one code's tree      *)
(*   scripts/regenerate_stale_caches.py  selection of stale code_trees     *)
(*                                                                         *)
(* Strings are atoms for TLC, so a path or a suppression token is a        *)
(* sequence of words and a regular expression is the set of words it       *)
(* matches; a structural id such as LEGIARTI000006797825 is written        *)
(* LEGIARTI1, the last digits standing for the twelve of the real id.      *)
(***************************************************************************)
EXTENDS Integers, Sequences, FiniteSets, TLC

(***************************************************************************)
(* Bounds of the model.                                                    *)
(***************************************************************************)
\* ingest_archive's batch_size argument (500 by default): the model runs it small.
BatchSize == 2
\* The longest archive of the single-archive scenarios.
MaxMembers == 4
\* The longest chain of nested sections a store of the tree scenarios holds.
MaxChain == 12
\* The longest list of article references of a section.
MaxArticles == 600
\* The largest --limit of regenerate_stale_caches.py.
MaxLimit == 2
\* NOW() at the start, and the last hour the clock reaches.
StartClock == 48
MaxClock == 50

(***************************************************************************)
(* Program constants.                                                      *)
(***************************************************************************)
token_cap == 5000
delete_batch_size == 1000
max_waves == 10
max_depth == 10
article_cap == 500
freshness_hours == 24

(***************************************************************************)
(* Helpers.                                                                *)
(***************************************************************************)
Min(a, b) == IF a <= b THEN a ELSE b

Max(a, b) == IF a >= b THEN a ELSE b

Range(s) == {s[i] : i \in DOMAIN s}

SeqsUpTo(S, n) == UNION {[1..k -> S] : k \in 0..n}

\* Python's s[:n].
Take(s, n) == SubSeq(s, 1, Min(Len(s), n))

\* words occurs in text as a run of consecutive words (a substring).
OccursIn(words, text) ==
    /\ words # <<>>
    /\ \E i \in 1..Len(text) :
          /\ i + Len(words) - 1 <= Len(text)
          /\ SubSeq(text, i, i + Len(words) - 1) = words

(***************************************************************************)
(* Structural ids and the two id patterns.                                 *)
(***************************************************************************)
TextIds == {"LEGITEXT1", "LEGITEXT2", "LEGITEXT3"}

ArticleIds == {"LEGIARTI1", "LEGIARTI2", "LEGIARTI3", "LEGIARTI4"}

\* In the text order of the ids, which is the order of ORDER BY meta->>'id'.
SectionIdSeq ==
    << "LEGISCTA01", "LEGISCTA02", "LEGISCTA03", "LEGISCTA04", "LEGISCTA05",
       "LEGISCTA06", "LEGISCTA07", "LEGISCTA08", "LEGISCTA09", "LEGISCTA10",
       "LEGISCTA11", "LEGISCTA12", "LEGISCTA13", "LEGISCTA14" >>

SectionIds == Range(SectionIdSeq)

\* Ids whose type has five letters: LEGI[A-Z]{5}\d{12}.
FiveLetterIds == {"LEGIDOSSI1"}

\* r'(LEGI[A-Z]{3,4}\d{12})' of _doc_id.
DocIdPattern == TextIds \cup ArticleIds \cup SectionIds

\* r'(LEGI[A-Z]{3,5}\d{12})' of _delete_by_tokens.
DeleteIdPattern == DocIdPattern \cup FiveLetterIds

\* The rightmost match, "" when there is none.
RECURSIVE LastMatch(_, _)
LastMatch(pattern, words) ==
    IF words = <<>> THEN ""
    ELSE IF words[Len(words)] \in pattern THEN words[Len(words)]
    ELSE LastMatch(pattern, SubSeq(words, 1, Len(words) - 1))

\* re.search(pattern, text): the leftmost match, "" when there is none (None).
RECURSIVE FirstMatch(_, _)
FirstMatch(pattern, words) ==
    IF words = <<>> THEN ""
    ELSE IF Head(words) \in pattern THEN Head(words)
    ELSE FirstMatch(pattern, Tail(words))

\* The snapshot folders r'^\d{8}-\d{6}/' recognises.
Timestamps == {"20260101-000000", "20260102-000000"}

\* str.lower() / ILIKE's case folding, on the words that occur in both cases.
Lower(w) ==
    CASE w = "LEGI" -> "legi"
      [] w = "JORF" -> "jorf"
      [] OTHER -> w

LowerAll(words) == [i \in DOMAIN words |-> Lower(words[i])]

(***************************************************************************)
(* Archive members.  A path is its snapshot folder, its words (folders     *)
(* and file stem) and its extension; the bytes of a member are an XML      *)
(* document (ok = FALSE: lxml cannot parse them) or the lines of a .dat.   *)
(***************************************************************************)
PathWords(path) ==
    (IF path.ts = "" THEN <<>> ELSE <<path.ts>>) \o path.words

NoXml ==
    [ok |-> FALSE, tag |-> "", attrid |-> "", id |-> "", titre |-> "",
     nature |-> "", etat |-> "", ctx_id_txt |-> "", titre_id_txt |-> "",
     num |-> "", subs |-> <<>>, arts |-> <<>>, text |-> "", enc |-> "utf-8"]

Xml(tag, id) == [NoXml EXCEPT !.ok = TRUE, !.tag = tag, !.id = id, !.text = id]

XmlMember(ts, words, xml) ==
    [path |-> [ts |-> ts, words |-> words, ext |-> "xml"], xml |-> xml, lines |-> <<>>]

DatMember(ts, words, lines) ==
    [path |-> [ts |-> ts, words |-> words, ext |-> "dat"], xml |-> NoXml, lines |-> lines]

(***************************************************************************)
(* _guess_doctype                                                          *)
(***************************************************************************)
_guess_doctype(path) ==
    LET p == LowerAll(PathWords(path)) IN
    IF path.ext = "xml" THEN
        IF "article" \in Range(p) THEN "article"
        ELSE IF "texte" \in Range(p) THEN "texte"
        ELSE IF "section_ta" \in Range(p) THEN "section"
        ELSE "xml"
    ELSE IF path.ext = "dat" THEN
        IF "liste_suppression" \in Range(p) THEN "suppression_list" ELSE "dat"
    ELSE "blob"

(***************************************************************************)
(* _extract_text_and_meta_from_xml.  A key the code leaves out of meta, or *)
(* sets to None, is "" here (0 for a count, <<>> for a list): Python's     *)
(* meta.get(k) is falsy and SQL's meta->>k is NULL in both cases.          *)
(* The keys no modelled operation reads (cid, name, the dates, origine,    *)
(* the link counts, the error text) are left out.                          *)
(***************************************************************************)
NoMeta ==
    [root_tag |-> "", id |-> "", titre |-> "", nature |-> "", etat |-> "",
     parent |-> "", num |-> "", nb_sections |-> 0, nb_articles |-> 0,
     sous_sections |-> <<>>, articles |-> <<>>, parse_error |-> FALSE,
     source |-> ""]

JorfTextIds == {"JORFTEXT1"}

\* r'/((?:LEGI|JORF)TEXT\d{12})/section_ta/' on the path: the id is a folder
\* that follows a "/" and is followed by the folder section_ta.
ParentFromPath(path) ==
    LET w == PathWords(path)
        hits == {i \in 2..(Len(w) - 1) :
                    w[i] \in TextIds \cup JorfTextIds /\ w[i + 1] = "section_ta"}
    IN  IF hits = {} THEN ""
        ELSE w[CHOOSE i \in hits : \A j \in hits : i <= j]

SectionParent(xml, path) ==
    IF xml.ctx_id_txt # "" THEN xml.ctx_id_txt
    ELSE IF xml.titre_id_txt # "" THEN xml.titre_id_txt
    ELSE ParentFromPath(path)

ExtractMeta(xml, path) ==
    IF ~xml.ok THEN [NoMeta EXCEPT !.parse_error = TRUE]
    ELSE
      LET base == [NoMeta EXCEPT !.root_tag = xml.tag, !.id = xml.attrid] IN
      CASE xml.tag = "TEXTE_VERSION" ->
             [base EXCEPT !.id = IF xml.id # "" THEN xml.id ELSE xml.attrid,
                          !.nature = xml.nature, !.titre = xml.titre,
                          !.etat = xml.etat]
        [] xml.tag = "SECTION_TA" ->
             [base EXCEPT !.id = xml.id, !.titre = xml.titre,
                          !.parent = SectionParent(xml, path),
                          !.nb_sections = Len(xml.subs),
                          !.nb_articles = Len(xml.arts),
                          !.sous_sections = SelectSeq(xml.subs, LAMBDA r : r.id # ""),
                          !.articles = SelectSeq(xml.arts, LAMBDA r : r.id # "")]
        [] xml.tag = "ARTICLE" ->
             [base EXCEPT !.id = xml.id, !.num = xml.num,
                          !.parent = xml.titre_id_txt]
        [] xml.tag = "TEXTELR" ->
             [base EXCEPT !.id = xml.id, !.nature = xml.nature]
        [] OTHER -> base

ExtractText(xml) == IF xml.ok THEN xml.text ELSE ""

(***************************************************************************)
(* _doc_id.  An id is a record so that structural ids and path hashes      *)
(* live in one key space: sha256 is collision free here.                   *)
(***************************************************************************)
StructuralId(s) == [k |-> "id", s |-> s, p |-> <<>>]

\* re.sub(r'^\d{8}-\d{6}/', '', path_in_tar)
StablePath(path) == path.words \o <<path.ext>>

HashId(source, path) == [k |-> "sha256", s |-> source, p |-> StablePath(path)]

_doc_id(source, path, meta) ==
    IF meta.id # "" THEN StructuralId(meta.id)
    ELSE LET m == FirstMatch(DocIdPattern, PathWords(path)) IN
         IF m # "" THEN StructuralId(m)
         ELSE HashId(source, path)

_sha256_bytes(member) == <<"sha256", member.xml>>

\* data.decode("utf-8", errors="replace"): bytes that are no UTF-8 (enc =
\* "invalid") come out with U+FFFD in the place of the offending ones.
DecodeReplace(xml) ==
    [xml EXCEPT !.enc = IF @ = "invalid" THEN "replaced" ELSE @]

\* The tuple ingest_archive appends to pending.
Row(source, member, updated_at) ==
    LET meta0 == ExtractMeta(member.xml, member.path)
        meta  == [meta0 EXCEPT !.source = source]
    IN  [id |-> _doc_id(source, member.path, meta),
         source |-> source,
         doctype |-> _guess_doctype(member.path),
         path |-> member.path,
         updated_at |-> updated_at,
         sha256 |-> _sha256_bytes(member),
         meta |-> meta,
         content_xml |-> DecodeReplace(member.xml),
         content_text |-> ExtractText(member.xml)]

(***************************************************************************)
(* _parse_suppression_list: a line is its words; a blank line has none     *)
(* and a comment line starts with "#".                                     *)
(***************************************************************************)
_parse_suppression_list(lines) ==
    SelectSeq(lines, LAMBDA l : l # <<>> /\ Head(l) # "#")

(***************************************************************************)
(* The documents table: a function from id to row.                         *)
(***************************************************************************)
EmptyTable == [i \in {} |-> 0]

\* INSERT ... ON CONFLICT (id) DO NOTHING.
InsertIfAbsent(table, row) ==
    [i \in DOMAIN table \cup {row.id} |-> IF i \in DOMAIN table THEN table[i] ELSE row]

\* INSERT ... ON CONFLICT (id) DO UPDATE SET every column = EXCLUDED's.
UpsertOne(table, row) ==
    [i \in DOMAIN table \cup {row.id} |-> IF i = row.id THEN row ELSE table[i]]

DeleteWhere(table, Doomed(_)) ==
    [i \in {j \in DOMAIN table : ~Doomed(table[j])} |-> table[i]]

(***************************************************************************)
(* _delete_by_tokens                                                       *)
(***************************************************************************)
\* The loop over the tokens without the [:5000].
UncappedTokens(tokens) == tokens

CappedTokens(tokens) == Take(tokens, token_cap)

\* The tokens that carry an id, as the id each carries.
ids_to_delete(tokens) ==
    LET hit == SelectSeq(CappedTokens(tokens),
                         LAMBDA t : FirstMatch(DeleteIdPattern, t) # "")
    IN  [i \in DOMAIN hit |-> FirstMatch(DeleteIdPattern, hit[i])]

tokens_without_id(tokens) ==
    SelectSeq(CappedTokens(tokens), LAMBDA t : FirstMatch(DeleteIdPattern, t) = "")

\* DELETE FROM documents WHERE source = %s AND meta->>'id' = ANY(%s)
\* The fast path without "source = %s".
FastDeleteAnySource(row, source, batch) == row.meta.id \in Range(batch)

FastDeleteMatches(row, source, batch) ==
    row.source = source /\ row.meta.id \in Range(batch)

\* ids_to_delete[i:i+batch_size]; i counts from 1 here.
fast_batch(ids, i) == SubSeq(ids, i, Min(Len(ids), i + delete_batch_size - 1))

\* The statements of the fast path, one for each batch of ids from the i-th on.
RECURSIVE DeleteFast(_, _, _, _)
DeleteFast(table, source, ids, i) ==
    IF i > Len(ids) THEN table
    ELSE LET batch == fast_batch(ids, i) IN
         DeleteFast(DeleteWhere(table, LAMBDA r : FastDeleteMatches(r, source, batch)),
                    source, ids, i + delete_batch_size)

\* The words of meta::text: the keys and the string values of the JSON.
MetaWords(meta) ==
    {"root_tag", "id", "source", "titre", "nature", "etat", "parent", "num",
     "parse_error"}
      \cup ({meta.root_tag, meta.id, meta.source, meta.titre, meta.nature,
             meta.etat, meta.parent, meta.num} \ {""})

\* The words a word of a LIKE pattern matches: the token goes into the
\* pattern as it is, and "_" in it stands for any one character.
LikeMatches(w) ==
    CASE w = "code_civil" -> {"code_civil", "code-civil"}
      [] OTHER -> {w}

\* text ILIKE '%words%' on lowered words.
OccursInLike(words, text) ==
    /\ words # <<>>
    /\ \E i \in 1..Len(text) :
          /\ i + Len(words) - 1 <= Len(text)
          /\ \A k \in DOMAIN words : text[i + k - 1] \in LikeMatches(words[k])

\* The slow path without "source = %s".
SlowDeleteAnySource(row, source, tokens) ==
    \E k \in DOMAIN tokens :
        LET t == LowerAll(tokens[k]) IN
        \/ OccursInLike(t, LowerAll(PathWords(row.path) \o <<row.path.ext>>))
        \/ Len(t) = 1 /\ LikeMatches(t[1]) \cap {Lower(w) : w \in MetaWords(row.meta)} # {}

\* path ILIKE '%t%' OR meta::text ILIKE '%t%'
SlowDeleteMatches(row, source, tokens) ==
    /\ row.source = source
    /\ \E k \in DOMAIN tokens :
          LET t == LowerAll(tokens[k]) IN
          \/ OccursInLike(t, LowerAll(PathWords(row.path) \o <<row.path.ext>>))
          \/ Len(t) = 1 /\ LikeMatches(t[1]) \cap {Lower(w) : w \in MetaWords(row.meta)} # {}

DeleteSlow(table, source, tokens) ==
    IF tokens = <<>> THEN table
    ELSE DeleteWhere(table, LAMBDA r : SlowDeleteMatches(r, source, tokens))

\* The table after _delete_by_tokens(conn, tokens, source).
_delete_by_tokens(table, tokens, source) ==
    IF tokens = <<>> THEN table
    ELSE DeleteSlow(DeleteFast(table, source, ids_to_delete(tokens), 1),
                    source, tokens_without_id(tokens))

(***************************************************************************)
(* The archive directory and _iter_archives.  An archive's name is its     *)
(* date key (the YYYYMMDD-HHMMSS of the file name, here a number), so      *)
(* sorting a folder by name and by _date_key agree; 0 is no name.          *)
(***************************************************************************)
Sources == {"LEGI", "JORF"}

Archive(folder, key, members) == [folder |-> folder, key |-> key, members |-> members]

_date_key(a) == a.key

\* sorted(folder, key=_date_key)
RECURSIVE SortedByKey(_)
SortedByKey(S) ==
    IF S = {} THEN <<>>
    ELSE LET first == CHOOSE a \in S : \A b \in S : _date_key(a) <= _date_key(b)
         IN  <<first>> \o SortedByKey(S \ {first})

\* The incrementals that follow the one named last; none when it is not there.
RECURSIVE AfterLast(_, _, _)
AfterLast(incr, last, started) ==
    IF incr = <<>> THEN <<>>
    ELSE IF ~started THEN AfterLast(Tail(incr), last, Head(incr).key = last)
    ELSE <<Head(incr)>> \o AfterLast(Tail(incr), last, TRUE)

_iter_archives(directory, st, source, runmode) ==
    LET freemium == SortedByKey(directory[source].freemium)
        incr     == SortedByKey(directory[source].incremental)
        last     == st[source].last_incremental
    IN  IF runmode = "init" THEN freemium \o incr
        ELSE IF last = 0 THEN <<>>
        ELSE AfterLast(incr, last, FALSE)

(***************************************************************************)
(* State.                                                                  *)
(***************************************************************************)
VARIABLES
    \* ---- ingest_legifrance_pg.py
    db,         \* the documents table as committed
    tx,         \* the documents table as the open connection sees it
    lock,       \* /tmp/legifrance_ingest.lock exists
    state,      \* ingest_state.json: source -> [initialized, last_incremental]
    dir,        \* the archive directory: source -> [freemium, incremental]
    todo,       \* the invocations of run still to come, each [mode, sources]
    inv,        \* the invocation running, or the last one
    pc,         \* where run is
    rc,         \* what the last invocation returned (-1: none yet)
    srcs,       \* run: the sources still to loop over
    source,     \* run: the source of the loop
    archives,   \* run: the archives of the source still to ingest
    archive,    \* ingest_archive: the archive
    members,    \* ingest_archive: the members still to read
    pending,    \* ingest_archive: the rows waiting for the next flush
    written,    \* _upsert_documents: how many rows of pending executemany wrote
    base,       \* history: db when ingest_archive was entered
    commits,    \* history: the conn.commit() calls of this ingest_archive
    \* ---- precalculate_all_trees.py, build_tree_optimized
    tpc,            \* where build_tree_optimized is
    code_id,        \* its argument
    header,         \* the row of the header query (found = FALSE: no row)
    root_ids,       \* the ids of the root sections, in the order of the query
    all_sections,   \* section id -> the section data loaded so far
    remaining_ids,  \* the ids the next wave loads
    wave_num,       \* the waves run so far
    queries,        \* history: the cur.execute() calls of this build
    fetches,        \* history: those of them that load sections
    result,         \* what build_tree_optimized returns
    \* ---- regenerate_stale_caches.py, get_stale_codes
    code_trees,     \* the cache table: code id -> updated_at
    clock,          \* NOW()
    cpc,            \* where main is
    stale,          \* stale_codes: the code ids get_stale_codes returned
    asked,          \* the arguments of that call
    idx,            \* the turns of the loop over stale_codes made so far
    error_count,    \* the regenerations of this run that failed
    success_count,  \* the regenerations of this run that succeeded
    code_cols,      \* code_trees: code id -> [generated_at, version]
    code_stats,     \* the code ids of the table code_stats
    exit_code,      \* the exit code of the last run (-1: none yet)
    last,           \* history: the last turn of the loop
    run_outcome,    \* how the last run ended ("": none yet)
    \* ---- a second process of each program
    pc2,            \* ingest_legifrance_pg.py: where its run is
    rc2,            \* what its last invocation returned (-1: none yet)
    cpc2,           \* regenerate_stale_caches.py: where its main is
    stale2,         \* its stale_codes
    idx2,           \* the turns of its loop made so far
    error_count2,   \* the regenerations of its run that failed
    exit_code2,     \* the exit code of its last run (-1: none yet)
    \* ---- precalculate_all_trees.py, precalculate_all
    skip_count,     \* the codes of this run skipped as already cached
    \* ---- daily_pipeline.py, main
    ppc,            \* where main stands
    report,         \* report["steps"] and report["sanity_ok"]
    pipeline_lock,  \* /tmp/legifrance_pipeline.lock exists
    pipeline_rc     \* the value main returned last (-1: none yet)

ingestVars ==
    <<db, tx, lock, state, dir, todo, inv, pc, rc, srcs, source, archives,
      archive, members, pending, written, base, commits>>

treeVars ==
    <<tpc, code_id, header, root_ids, all_sections, remaining_ids, wave_num,
      queries, fetches, result>>

cacheVars ==
    <<code_trees, clock, cpc, stale, asked, idx, error_count, success_count,
      code_cols, code_stats, exit_code, last, run_outcome>>

pipelineVars == <<ppc, report, pipeline_lock, pipeline_rc>>

otherVars ==
    <<pc2, rc2, cpc2, stale2, idx2, error_count2, exit_code2, skip_count, pipelineVars>>

vars == <<ingestVars, treeVars, cacheVars, otherVars>>

runLocals == <<srcs, source, archives, archive, members, pending, written>>

NoArchive == Archive("", 0, <<>>)

NoInvocation == [mode |-> "", sources |-> <<>>]

FreshState == [s \in Sources |-> [initialized |-> FALSE, last_incremental |-> 0]]

(***************************************************************************)
(* run                                                                     *)
(***************************************************************************)
\* run up to the loop over the sources: the lock, and the check of daily.
RunStart ==
    /\ UNCHANGED <<treeVars, cacheVars, otherVars>>
    /\ pc \in {"idle", "killed"}
    /\ todo # <<>>
    /\ inv' = Head(todo)
    /\ todo' = Tail(todo)
    /\ srcs' = IF lock THEN <<>> ELSE Head(todo).sources
    /\ source' = ""
    /\ archives' = <<>>
    /\ archive' = NoArchive
    /\ members' = <<>>
    /\ pending' = <<>>
    /\ written' = 0
    /\ commits' = <<>>
    /\ IF lock
         THEN \* FileExistsError
              /\ rc' = 2
              /\ pc' = "idle"
              /\ lock' = lock
         ELSE IF /\ Head(todo).mode = "daily"
                 /\ \E i \in DOMAIN Head(todo).sources :
                       ~state[Head(todo).sources[i]].initialized
         THEN \* return 3, and the finally releases the lock
              /\ rc' = 3
              /\ pc' = "idle"
              /\ lock' = FALSE
         ELSE /\ rc' = -1
              /\ pc' = "sources"
              /\ lock' = TRUE
    /\ UNCHANGED <<db, tx, state, dir, base>>

\* for source in sources: the archives of the next source.
NextSource ==
    /\ UNCHANGED <<treeVars, cacheVars, otherVars>>
    /\ pc = "sources"
    /\ srcs # <<>>
    /\ source' = Head(srcs)
    /\ srcs' = Tail(srcs)
    /\ archives' = _iter_archives(dir, state, Head(srcs), inv.mode)
    /\ pc' = "archives"
    /\ UNCHANGED <<db, tx, lock, state, dir, todo, inv, rc, archive, members,
                   pending, written, base, commits>>

\* return 0: the connection closes and the finally releases the lock.
RunReturn ==
    /\ UNCHANGED <<treeVars, cacheVars, otherVars>>
    /\ pc = "sources"
    /\ srcs = <<>>
    /\ rc' = 0
    /\ pc' = "idle"
    /\ lock' = FALSE
    /\ tx' = db
    /\ source' = ""
    /\ UNCHANGED <<db, state, dir, todo, inv, srcs, archives, archive, members,
                   pending, written, base, commits>>

\* for a in archives: ingest_archive is entered, or the source is done.
OpenArchive ==
    /\ UNCHANGED <<treeVars, cacheVars, otherVars>>
    /\ pc = "archives"
    /\ IF archives = <<>>
         THEN /\ pc' = "sources"
              /\ UNCHANGED <<archives, archive, members, base, commits>>
         ELSE /\ pc' = "members"
              /\ archive' = Head(archives)
              /\ archives' = Tail(archives)
              /\ members' = Head(archives).members
              /\ base' = db
              /\ commits' = <<>>
    /\ pending' = <<>>
    /\ written' = 0
    /\ UNCHANGED <<db, tx, lock, state, dir, todo, inv, rc, srcs, source>>

(***************************************************************************)
(* ingest_archive                                                          *)
(***************************************************************************)
\* A flush after every row.
FlushDueEveryRow(rows) == Len(rows) >= 1

FlushDue(rows) == Len(rows) >= BatchSize

\* One turn of "for member in tar": a suppression list is applied, an XML
\* member is appended to pending, anything else is ignored.
ReadMember ==
    /\ UNCHANGED <<treeVars, cacheVars, otherVars>>
    /\ pc = "members"
    /\ members # <<>>
    /\ members' = Tail(members)
    /\ LET m == Head(members)
           doctype == _guess_doctype(m.path)
       IN  IF doctype = "suppression_list"
             THEN /\ tx' = _delete_by_tokens(tx, _parse_suppression_list(m.lines), source)
                  /\ pc' = "commit_manifest"
                  /\ UNCHANGED <<pending, written>>
           ELSE IF doctype \in {"article", "texte", "section", "xml"}
             THEN /\ pending' = Append(pending, Row(source, m, _date_key(archive)))
                  /\ written' = 0
                  /\ pc' = IF FlushDue(pending') THEN "upsert" ELSE "members"
                  /\ tx' = tx
           ELSE /\ pc' = "members"
                /\ UNCHANGED <<tx, pending, written>>
    /\ UNCHANGED <<db, lock, state, dir, todo, inv, rc, srcs, source, archives,
                   archive, base, commits>>

\* conn.commit() after a suppression list (line 532).
CommitManifest ==
    /\ UNCHANGED <<treeVars, cacheVars, otherVars>>
    /\ pc = "commit_manifest"
    /\ db' = tx
    /\ commits' = Append(commits, [line |-> 532, flushed |-> 0, written |-> written])
    /\ pc' = "members"
    /\ UNCHANGED <<tx, lock, state, dir, todo, inv, rc, srcs, source, archives,
                   archive, members, pending, written, base>>

\* executemany on a connection in autocommit: each row is durable at once.
UpsertRowAutocommit ==
    /\ UNCHANGED <<treeVars, cacheVars, otherVars>>
    /\ pc \in {"upsert", "upsert_final"}
    /\ written < Len(pending)
    /\ tx' = UpsertOne(tx, pending[written + 1])
    /\ db' = UpsertOne(tx, pending[written + 1])
    /\ written' = written + 1
    /\ UNCHANGED <<lock, state, dir, todo, inv, pc, rc, srcs, source,
                   archives, archive, members, pending, base, commits>>

\* A row the server refuses: text with a NUL character cannot be stored.
Malformed(row) == row.content_xml.enc = "nul"

\* The exit code of a process that an uncaught exception ends.
traceback_code == 1

\* executemany raises on the row the server refuses: nothing catches the
\* exception, the connection rolls back, the finally of run releases the
\* lock and the process ends.
UpsertRaises ==
    /\ UNCHANGED <<treeVars, cacheVars, otherVars>>
    /\ pc \in {"upsert", "upsert_final"}
    /\ written < Len(pending)
    /\ Malformed(pending[written + 1])
    /\ tx' = db
    /\ lock' = FALSE
    /\ rc' = traceback_code
    /\ pc' = "idle"
    /\ UNCHANGED <<db, state, dir, todo, inv, srcs, source, archives, archive,
                   members, pending, written, base, commits>>

\* The error of a store operation is logged and the run goes on with the
\* next archive.
StoreFailsAndRunGoesOn ==
    /\ UNCHANGED <<treeVars, cacheVars, otherVars>>
    /\ pc \in {"members", "commit_manifest", "upsert", "upsert_final"}
    /\ tx' = db
    /\ rc' = traceback_code
    /\ pc' = "archives"
    /\ UNCHANGED <<db, lock, state, dir, todo, inv, srcs, source, archives, archive,
                   members, pending, written, base, commits>>

\* The store is unreachable while ingest_archive works on the connection:
\* the operation raises, nothing catches the exception, the finally of run
\* releases the lock and the process ends.
StoreFails ==
    /\ UNCHANGED <<treeVars, cacheVars, otherVars>>
    /\ pc \in {"members", "commit_manifest", "upsert", "upsert_final"}
    /\ tx' = db
    /\ lock' = FALSE
    /\ rc' = traceback_code
    /\ pc' = "idle"
    /\ UNCHANGED <<db, state, dir, todo, inv, srcs, source, archives, archive,
                   members, pending, written, base, commits>>

\* The upsert of a row with the cache of code trees emptied for its sake.
UpsertRowAndDropCache ==
    /\ UNCHANGED <<treeVars, otherVars>>
    /\ pc \in {"upsert", "upsert_final"}
    /\ written < Len(pending)
    /\ tx' = UpsertOne(tx, pending[written + 1])
    /\ written' = written + 1
    /\ code_trees' = [c \in {} |-> 0]
    /\ code_cols' = [c \in {} |-> 0]
    /\ UNCHANGED <<db, lock, state, dir, todo, inv, pc, rc, srcs, source, archives,
                   archive, members, pending, base, commits>>
    /\ UNCHANGED <<clock, cpc, stale, asked, idx, error_count, success_count,
                   code_stats, exit_code, last, run_outcome>>

\* _upsert_documents: executemany writes the next row of pending.
UpsertRow ==
    /\ UNCHANGED <<treeVars, cacheVars, otherVars>>
    /\ pc \in {"upsert", "upsert_final"}
    /\ written < Len(pending)
    /\ ~Malformed(pending[written + 1])
    /\ tx' = UpsertOne(tx, pending[written + 1])
    /\ written' = written + 1
    /\ UNCHANGED <<db, lock, state, dir, todo, inv, pc, rc, srcs, source,
                   archives, archive, members, pending, base, commits>>

\* conn.commit() after _upsert_documents (lines 559 and 567); pending.clear().
CommitBatch ==
    /\ UNCHANGED <<treeVars, cacheVars, otherVars>>
    /\ pc \in {"upsert", "upsert_final"}
    /\ written = Len(pending)
    /\ db' = tx
    /\ commits' = Append(commits, [line |-> IF pc = "upsert" THEN 559 ELSE 567,
                                   flushed |-> Len(pending), written |-> written])
    /\ pending' = <<>>
    /\ written' = 0
    /\ pc' = IF pc = "upsert" THEN "members" ELSE "archive_done"
    /\ UNCHANGED <<tx, lock, state, dir, todo, inv, rc, srcs, source, archives,
                   archive, members, base>>

\* The tar is read to its end: "if pending:" flushes what is left.
EndOfArchive ==
    /\ UNCHANGED <<treeVars, cacheVars, otherVars>>
    /\ pc = "members"
    /\ members = <<>>
    /\ pc' = IF pending # <<>> THEN "upsert_final" ELSE "archive_done"
    /\ written' = 0
    /\ UNCHANGED <<db, tx, lock, state, dir, todo, inv, rc, srcs, source,
                   archives, archive, members, pending, base, commits>>

\* ingest_archive has returned: run updates the state and saves it.
ArchiveDone ==
    /\ UNCHANGED <<treeVars, cacheVars, otherVars>>
    /\ pc = "archive_done"
    /\ state' = [state EXCEPT
                   ![source] = [initialized |-> (inv.mode = "init") \/ @.initialized,
                                last_incremental |->
                                   IF archive.folder = "incremental"
                                     THEN archive.key ELSE @.last_incremental]]
    /\ pc' = "archives"
    /\ UNCHANGED <<db, tx, lock, dir, todo, inv, rc, srcs, source, archives,
                   archive, members, pending, written, base, commits>>

\* The process is terminated: the open transaction is lost, the lock file stays.
Kill ==
    /\ UNCHANGED <<treeVars, cacheVars, otherVars>>
    /\ pc \notin {"idle", "killed"}
    /\ pc' = "killed"
    /\ tx' = db
    /\ UNCHANGED <<db, lock, state, dir, todo, inv, rc, srcs, source, archives,
                   archive, members, pending, written, base, commits>>

(***************************************************************************)
(* A second invocation of run, in a process of its own, for sources that   *)
(* have no archive to ingest: between _acquire_lock and _release_lock it   *)
(* loads the state and connects, and writes nothing.                       *)
(***************************************************************************)
\* The lock file opened without O_EXCL.
Run2StartWithoutExcl ==
    /\ UNCHANGED <<treeVars, cacheVars>>
    /\ pc2 = "idle"
    /\ rc2' = -1
    /\ pc2' = "sources"
    /\ lock' = TRUE
    /\ UNCHANGED <<db, tx, state, dir, todo, inv, pc, rc, srcs, source, archives,
                   archive, members, pending, written, base, commits>>
    /\ UNCHANGED <<cpc2, stale2, idx2, error_count2, exit_code2, skip_count, pipelineVars>>

\* _acquire_lock(): FileExistsError and return 2, or the lock is taken.
Run2Start ==
    /\ UNCHANGED <<treeVars, cacheVars>>
    /\ pc2 = "idle"
    /\ IF lock
         THEN /\ rc2' = 2
              /\ pc2' = "idle"
              /\ lock' = lock
         ELSE /\ rc2' = -1
              /\ pc2' = "sources"
              /\ lock' = TRUE
    /\ UNCHANGED <<db, tx, state, dir, todo, inv, pc, rc, srcs, source, archives,
                   archive, members, pending, written, base, commits>>
    /\ UNCHANGED <<cpc2, stale2, idx2, error_count2, exit_code2, skip_count, pipelineVars>>

\* return 0, and the finally releases the lock.
Run2Return ==
    /\ UNCHANGED <<treeVars, cacheVars>>
    /\ pc2 = "sources"
    /\ rc2' = 0
    /\ pc2' = "idle"
    /\ lock' = FALSE
    /\ UNCHANGED <<db, tx, state, dir, todo, inv, pc, rc, srcs, source, archives,
                   archive, members, pending, written, base, commits>>
    /\ UNCHANGED <<cpc2, stale2, idx2, error_count2, exit_code2, skip_count, pipelineVars>>

(***************************************************************************)
(* build_tree_optimized.  It reads the committed table over a connection   *)
(* of its own.  A reference of sous_sections is [id, fin, etat], one of    *)
(* articles [id, num, fin, etat]; an attribute the link lacks is "".       *)
(***************************************************************************)
OpenEnded == "2999-01-01"

SectionRef(id, fin, etat) == [id |-> id, fin |-> fin, etat |-> etat]

ArticleRef(id, num, fin, etat) == [id |-> id, num |-> num, fin |-> fin, etat |-> etat]

NoHeader == [found |-> FALSE, titre |-> "", nature |-> ""]

NoResult ==
    [found |-> FALSE, code_id |-> "", titre |-> "", nature |-> "", tree |-> <<>>,
     nb_sections_loaded |-> 0, nb_waves |-> 0]

NoSections == [i \in {} |-> 0]

\* The rank of a section id in the order of ORDER BY meta->>'id'.
IdRank(id) == CHOOSE i \in DOMAIN SectionIdSeq : SectionIdSeq[i] = id

RECURSIVE SortedById(_)
SortedById(S) ==
    IF S = {} THEN <<>>
    ELSE LET first == CHOOSE x \in S : \A y \in S : IdRank(x) <= IdRank(y)
         IN  <<first>> \o SortedById(S \ {first})

\* SELECT meta->>'titre', meta->>'nature' ... LIMIT 1 (lines 86-97).
HeaderQuery(table, code) ==
    LET hits == {i \in DOMAIN table :
                    /\ table[i].source = "LEGI"
                    /\ table[i].doctype = "texte"
                    /\ table[i].meta.id = code}
    IN  IF hits = {} THEN NoHeader
        ELSE LET r == table[CHOOSE i \in hits : TRUE]
             IN  [found |-> TRUE, titre |-> r.meta.titre, nature |-> r.meta.nature]

\* The columns both section queries select.
SectionData(row) ==
    [id |-> row.meta.id, titre |-> row.meta.titre,
     sous_sections |-> row.meta.sous_sections, articles |-> row.meta.articles,
     nb_sections |-> row.meta.nb_sections, nb_articles |-> row.meta.nb_articles]

SectionRows(table) ==
    {i \in DOMAIN table : table[i].source = "LEGI" /\ table[i].doctype = "section"}

\* DISTINCT ON (meta->>'id'): one row for each id of ids.
OnePerId(table, hits, ids) ==
    [x \in ids |-> SectionData(table[CHOOSE i \in hits : table[i].meta.id = x])]

\* The root query (lines 102-131): section id -> data.
RootQuery(table, code) ==
    LET hits == {i \in SectionRows(table) : table[i].meta.parent = code}
    IN  OnePerId(table, hits, {table[i].meta.id : i \in hits})

\* The query of a wave (lines 163-189): section id -> data.
WaveQuery(table, ids_list) ==
    LET hits == {i \in SectionRows(table) : table[i].meta.id \in ids_list}
    IN  OnePerId(table, hits, {table[i].meta.id : i \in hits})

\* The ids the sous_sections of these sections name.
SubsectionIds(sections) ==
    UNION {{sections[x].sous_sections[k].id : k \in DOMAIN sections[x].sous_sections} :
              x \in DOMAIN sections}

\* cur.execute of the header query; "if not code_row: return None".
FetchHeader ==
    /\ UNCHANGED <<ingestVars, cacheVars, otherVars>>
    /\ tpc = "idle"
    /\ \E c \in TextIds :
          /\ code_id' = c
          /\ header' = HeaderQuery(db, c)
          /\ tpc' = IF HeaderQuery(db, c).found THEN "roots" ELSE "done"
    /\ queries' = 1
    /\ fetches' = 0
    /\ result' = NoResult
    /\ root_ids' = <<>>
    /\ all_sections' = NoSections
    /\ remaining_ids' = {}
    /\ wave_num' = 0

\* The root query, and the first pass of collect_subsection_ids.
FetchRoots ==
    /\ UNCHANGED <<ingestVars, cacheVars, otherVars>>
    /\ tpc = "roots"
    /\ LET root_sections == RootQuery(db, code_id) IN
          /\ root_ids' = SortedById(DOMAIN root_sections)
          /\ all_sections' = root_sections
          /\ remaining_ids' = SubsectionIds(root_sections) \ DOMAIN root_sections
    /\ queries' = queries + 1
    /\ fetches' = fetches + 1
    /\ tpc' = "waves"
    /\ UNCHANGED <<code_id, header, wave_num, result>>

\* The loop of the waves without "remaining_ids and".
WaveLoopToTheLimit(ids, n) == n < max_waves

\* while remaining_ids and wave_num < max_waves
WaveLoopContinues(ids, n) == ids # {} /\ n < max_waves

\* One turn of the loop of the waves.
Wave ==
    /\ UNCHANGED <<ingestVars, cacheVars, otherVars>>
    /\ tpc = "waves"
    /\ WaveLoopContinues(remaining_ids, wave_num)
    /\ wave_num' = wave_num + 1
    /\ LET new_sections == WaveQuery(db, remaining_ids)
           updated == [x \in DOMAIN all_sections \cup DOMAIN new_sections |->
                          IF x \in DOMAIN new_sections THEN new_sections[x]
                          ELSE all_sections[x]]
       IN  /\ all_sections' = updated
           /\ remaining_ids' = SubsectionIds(new_sections) \ DOMAIN updated
    /\ queries' = queries + 1
    /\ fetches' = fetches + 1
    /\ UNCHANGED <<tpc, code_id, header, root_ids, result>>

\* The loop of the children without its filter.
EveryReference(ss) == ss.id # ""

\* The test of lines 229 and 241 on a reference.
IsCurrentSection(ss) == ss.fin = OpenEnded \/ ss.etat = "VIGUEUR"

IsCurrentArticle(art) == art.fin = OpenEnded \/ art.etat = "VIGUEUR"

\* The break one article late.
CapExceeded(articles_filtered) == Len(articles_filtered) > article_cap

\* if len(articles_filtered) >= 500: break
CapReached(articles_filtered) == Len(articles_filtered) >= article_cap

\* One turn of "for art in section['articles']"; done is the break.
ArticleLoopBody(st, art) ==
    IF st.done \/ ~IsCurrentArticle(art) THEN st
    ELSE LET appended == Append(st.articles_filtered,
                                [id |-> art.id, num |-> art.num, titre |-> ""])
         IN  [articles_filtered |-> appended, done |-> CapReached(appended)]

\* The turns lo..hi of the loop, in order, from the loop state st.
RECURSIVE ArticleLoop(_, _, _, _)
ArticleLoop(arts, lo, hi, st) ==
    IF st.done \/ lo > hi THEN st
    ELSE IF lo = hi THEN ArticleLoopBody(st, arts[lo])
    ELSE LET mid == (lo + hi) \div 2
         IN  ArticleLoop(arts, mid + 1, hi, ArticleLoop(arts, lo, mid, st))

FilterArticles(arts) ==
    ArticleLoop(arts, 1, Len(arts), [articles_filtered |-> <<>>, done |-> FALSE]).articles_filtered

\* build_node_from_memory: no node (None) is <<>>, a node is <<node>>; a key
\* the node lacks ("children", "articles") is <<>>.
RECURSIVE build_node_from_memory(_, _, _, _)
RECURSIVE ChildNodes(_, _, _, _, _)
build_node_from_memory(sections, section_id, current_depth, depth_limit) ==
    IF current_depth > depth_limit THEN <<>>
    ELSE IF section_id \notin DOMAIN sections THEN <<>>
    ELSE LET section == sections[section_id] IN
         << [id |-> section.id,
             titre |-> section.titre,
             nb_sections |-> section.nb_sections,
             nb_articles |-> section.nb_articles,
             children |-> IF current_depth < depth_limit /\ section.sous_sections # <<>>
                            THEN ChildNodes(sections, section.sous_sections, 1,
                                            current_depth, depth_limit)
                            ELSE <<>>,
             articles |-> FilterArticles(section.articles)] >>

\* for ss in section["sous_sections"], from the k-th reference on.
ChildNodes(sections, refs, k, current_depth, depth_limit) ==
    IF k > Len(refs) THEN <<>>
    ELSE (IF IsCurrentSection(refs[k])
            THEN build_node_from_memory(sections, refs[k].id, current_depth + 1,
                                        depth_limit)
            ELSE <<>>)
         \o ChildNodes(sections, refs, k + 1, current_depth, depth_limit)

\* The roots built at current_depth=0.
RootNodeFromZero(sections, root_id) ==
    build_node_from_memory(sections, root_id, 0, max_depth)

\* The roots built at current_depth=2.
RootNodeFromTwo(sections, root_id) ==
    build_node_from_memory(sections, root_id, 2, max_depth)

\* build_node_from_memory(root_id, current_depth=1, max_depth=10)
RootNode(sections, root_id) == build_node_from_memory(sections, root_id, 1, max_depth)

RECURSIVE RootNodes(_, _, _)
RootNodes(sections, ids, k) ==
    IF k > Len(ids) THEN <<>>
    ELSE RootNode(sections, ids[k]) \o RootNodes(sections, ids, k + 1)

\* The loop of the waves has ended: the tree is built in memory and returned.
Assemble ==
    /\ UNCHANGED <<ingestVars, cacheVars, otherVars>>
    /\ tpc = "waves"
    /\ ~WaveLoopContinues(remaining_ids, wave_num)
    /\ result' = [found |-> TRUE,
                  code_id |-> code_id,
                  titre |-> IF header.titre # "" THEN header.titre ELSE "Code",
                  nature |-> IF header.nature # "" THEN header.nature ELSE "CODE",
                  tree |-> RootNodes(all_sections, root_ids, 1),
                  nb_sections_loaded |-> Cardinality(DOMAIN all_sections),
                  nb_waves |-> wave_num]
    /\ tpc' = "done"
    /\ UNCHANGED <<code_id, header, root_ids, all_sections, remaining_ids,
                   wave_num, queries, fetches>>

(***************************************************************************)
(* regenerate_stale_caches.py.  Time is counted in hours; the table        *)
(* code_trees is code id -> updated_at.                                    *)
(***************************************************************************)
NoCall == [called |-> FALSE, force |-> FALSE, limit |-> 0]

NoAttempt == [code |-> "", outcome |-> "", ok |-> FALSE, at |-> 0, version_before |-> ""]

\* The comparison with <= in place of <.
NotYoungerThanFreshness(updated_at, now) == updated_at <= now - freshness_hours

\* WHERE updated_at < NOW() - INTERVAL '24 hours'
OlderThanFreshness(updated_at, now) == updated_at < now - freshness_hours

\* The rows the query of get_stale_codes selects.
StaleRows(table, now, force) ==
    IF force THEN DOMAIN table
    ELSE {c \in DOMAIN table : OlderThanFreshness(table[c], now)}

\* ORDER BY updated_at ASC: every order of the rows that it allows.
OrderedByUpdatedAt(table, rows) ==
    {s \in [1..Cardinality(rows) -> rows] :
        /\ \A i, j \in DOMAIN s : i < j => s[i] # s[j] /\ table[s[i]] <= table[s[j]]}

\* get_stale_codes: "if limit:" appends LIMIT, so None and 0 leave it out.
get_stale_codes(table, now, force, limit) ==
    {IF limit # 0 THEN Take(s, limit) ELSE s :
        s \in OrderedByUpdatedAt(table, StaleRows(table, now, force))}

\* The call of get_stale_codes with these arguments, and the counters of
\* the loop set to 0.
Select(force, limit) ==
    /\ UNCHANGED <<ingestVars, treeVars, otherVars>>
    /\ cpc = "idle"
    /\ asked' = [called |-> TRUE, force |-> force, limit |-> limit]
    /\ stale' \in get_stale_codes(code_trees, clock, force, limit)
    /\ idx' = 0
    /\ success_count' = 0
    /\ error_count' = 0
    /\ last' = NoAttempt
    /\ cpc' = "loop"
    /\ UNCHANGED <<code_trees, code_cols, code_stats, clock, exit_code, run_outcome>>

\* main up to the loop, with any --force and --limit.
SelectStale == \E force \in BOOLEAN, limit \in 0..MaxLimit : Select(force, limit)

\* main up to the loop as step 5 of daily_pipeline.py invokes it: --verbose only.
SelectStaleDaily == Select(FALSE, 0)

\* What can go wrong while the child process of regenerate_code runs.
Faults == {"none", "timeout", "critical", "build_error", "write_error"}

\* precalculate_all_trees.py --code-id c --force, as regenerate_code sees it end:
\*   timeout      subprocess.run raises TimeoutExpired after 300 s;
\*   critical     the query of code_stats raises: main's handler, sys.exit(1);
\*   no_stats     no row of code_stats: "not found" is printed, return;
\*   build_error  build_tree_optimized raises: caught, error_count += 1;
\*   not_found    build_tree_optimized returns None: error_count += 1, continue;
\*   write_error  save_to_cache raises: caught, error_count += 1;
\*   success      save_to_cache has committed the row.
ChildOutcome(table, stats, c, fault) ==
    IF fault = "timeout" THEN "timeout"
    ELSE IF fault = "critical" THEN "critical"
    ELSE IF c \notin stats THEN "no_stats"
    ELSE IF fault = "build_error" THEN "build_error"
    ELSE IF ~HeaderQuery(table, c).found THEN "not_found"
    ELSE IF fault = "write_error" THEN "write_error"
    ELSE "success"

\* main of precalculate_all_trees.py: sys.exit(0) after precalculate_all
\* returns, sys.exit(1) when an exception escapes it.
ChildReturnCode(outcome) == IF outcome = "critical" THEN 1 ELSE 0

\* regenerate_code: True when the child ended with return code 0.
regenerate_code(outcome) == outcome # "timeout" /\ ChildReturnCode(outcome) = 0

\* The tag save_to_cache writes.
version_tag == "2.0"

\* save_to_cache: the row of the code after ON CONFLICT (code_id) DO UPDATE.
SavedCols(now) == [generated_at |-> now, version |-> version_tag]

\* The loop left at the first regeneration that fails.
RegenerateNextOrAbort ==
    /\ UNCHANGED <<ingestVars, treeVars, otherVars>>
    /\ cpc = "loop"
    /\ idx < Len(stale)
    /\ \E fault \in Faults :
         LET c == stale[idx + 1]
             outcome == ChildOutcome(db, code_stats, c, fault)
             ok == regenerate_code(outcome)
         IN  /\ last' = [code |-> c, outcome |-> outcome, ok |-> ok, at |-> clock,
                         version_before |-> code_cols[c].version]
             /\ idx' = IF ok THEN idx + 1 ELSE Len(stale)
             /\ IF outcome = "success"
                  THEN /\ code_trees' = [code_trees EXCEPT ![c] = clock]
                       /\ code_cols' = [code_cols EXCEPT ![c] = SavedCols(clock)]
                  ELSE UNCHANGED <<code_trees, code_cols>>
             /\ success_count' = IF ok THEN success_count + 1 ELSE success_count
             /\ error_count' = IF ok THEN error_count ELSE error_count + 1
    /\ UNCHANGED <<clock, cpc, stale, asked, code_stats, exit_code, run_outcome>>

\* One turn of "for idx, code in enumerate(stale_codes, 1)".
RegenerateNext ==
    /\ UNCHANGED <<ingestVars, treeVars, otherVars>>
    /\ cpc = "loop"
    /\ idx < Len(stale)
    /\ idx' = idx + 1
    /\ \E fault \in Faults :
         LET c == stale[idx + 1]
             outcome == ChildOutcome(db, code_stats, c, fault)
             ok == regenerate_code(outcome)
         IN  /\ last' = [code |-> c, outcome |-> outcome, ok |-> ok, at |-> clock,
                         version_before |-> code_cols[c].version]
             /\ IF outcome = "success"
                  THEN /\ code_trees' = [code_trees EXCEPT ![c] = clock]
                       /\ code_cols' = [code_cols EXCEPT ![c] = SavedCols(clock)]
                  ELSE UNCHANGED <<code_trees, code_cols>>
             /\ success_count' = IF ok THEN success_count + 1 ELSE success_count
             /\ error_count' = IF ok THEN error_count ELSE error_count + 1
    /\ UNCHANGED <<clock, cpc, stale, asked, code_stats, exit_code, run_outcome>>

\* "if error_count > 0: return 1" and "return 0".
SummaryCode(errors) == IF errors > 0 THEN 1 ELSE 0

\* main returns, at once when nothing was selected and else after the
\* summary; its locals are gone.
RegenerateReturn ==
    /\ UNCHANGED <<ingestVars, treeVars, otherVars>>
    /\ cpc = "loop"
    /\ idx = Len(stale)
    /\ cpc' = "idle"
    /\ exit_code' = SummaryCode(error_count)
    /\ run_outcome' = IF error_count > 0 THEN "some_failed" ELSE "all_succeeded"
    /\ stale' = <<>>
    /\ asked' = NoCall
    /\ idx' = 0
    /\ success_count' = 0
    /\ error_count' = 0
    /\ last' = NoAttempt
    /\ UNCHANGED <<code_trees, code_cols, code_stats, clock>>

(***************************************************************************)
(* A second invocation of regenerate_stale_caches.py, in a process of its  *)
(* own: the same main, on the same tables.                                 *)
(***************************************************************************)
\* main up to the loop, without --force or --limit; nothing is asked of any
\* lock.
Select2 ==
    /\ UNCHANGED <<ingestVars, treeVars, cacheVars>>
    /\ cpc2 = "idle"
    /\ stale2' \in get_stale_codes(code_trees, clock, FALSE, 0)
    /\ idx2' = 0
    /\ error_count2' = 0
    /\ cpc2' = "loop"
    /\ UNCHANGED <<pc2, rc2, exit_code2, skip_count, pipelineVars>>

\* One turn of its loop.
Regenerate2Next ==
    /\ UNCHANGED <<ingestVars, treeVars>>
    /\ cpc2 = "loop"
    /\ idx2 < Len(stale2)
    /\ \E fault \in Faults :
         LET c == stale2[idx2 + 1]
             outcome == ChildOutcome(db, code_stats, c, fault)
             ok == regenerate_code(outcome)
         IN  /\ idx2' = idx2 + 1
             /\ IF outcome = "success"
                  THEN /\ code_trees' = [code_trees EXCEPT ![c] = clock]
                       /\ code_cols' = [code_cols EXCEPT ![c] = SavedCols(clock)]
                  ELSE UNCHANGED <<code_trees, code_cols>>
             /\ error_count2' = IF ok THEN error_count2 ELSE error_count2 + 1
    /\ UNCHANGED <<clock, cpc, stale, asked, idx, error_count, success_count,
                   code_stats, exit_code, last, run_outcome>>
    /\ UNCHANGED <<pc2, rc2, cpc2, stale2, exit_code2, skip_count, pipelineVars>>

\* Its summary and exit code.
Regenerate2Return ==
    /\ UNCHANGED <<ingestVars, treeVars, cacheVars>>
    /\ cpc2 = "loop"
    /\ idx2 = Len(stale2)
    /\ cpc2' = "idle"
    /\ exit_code2' = SummaryCode(error_count2)
    /\ stale2' = <<>>
    /\ idx2' = 0
    /\ error_count2' = 0
    /\ UNCHANGED <<pc2, rc2, skip_count, pipelineVars>>

(***************************************************************************)
(* precalculate_all_trees.py run on its own, over the codes of code_stats. *)
(***************************************************************************)
\* The check with the rows older than the window in place of the younger.
already_cached_older(table, cols, c, now) ==
    /\ c \in DOMAIN table
    /\ table[c] < now - freshness_hours
    /\ cols[c].version = version_tag

\* SELECT 1 FROM code_trees WHERE code_id = %s
\*   AND updated_at > NOW() - INTERVAL '24 hours' AND version = '2.0'
already_cached(table, cols, c, now) ==
    /\ c \in DOMAIN table
    /\ table[c] > now - freshness_hours
    /\ cols[c].version = version_tag

\* get_all_code_ids: the codes of code_stats, in an order of the ORDER BY.
get_all_code_ids(stats) ==
    {q \in [1..Cardinality(stats) -> stats] : Range(q) = stats}

\* A row is put in place of the one the table may hold for the key.
Put(f, c, v) == [x \in DOMAIN f \cup {c} |-> IF x = c THEN v ELSE f[x]]

\* precalculate_all up to its loop.
PrecalculateStart ==
    /\ UNCHANGED <<ingestVars, treeVars>>
    /\ cpc = "idle"
    /\ \E force \in BOOLEAN : asked' = [called |-> TRUE, force |-> force, limit |-> 0]
    /\ stale' \in get_all_code_ids(code_stats)
    /\ idx' = 0
    /\ success_count' = 0
    /\ error_count' = 0
    /\ skip_count' = 0
    /\ last' = NoAttempt
    /\ cpc' = "precalc"
    /\ UNCHANGED <<code_trees, code_cols, code_stats, clock, exit_code, run_outcome>>
    /\ UNCHANGED <<pc2, rc2, cpc2, stale2, idx2, error_count2, exit_code2, pipelineVars>>

\* One turn of "for idx, code in enumerate(codes, 1)".
PrecalculateNext ==
    /\ UNCHANGED <<ingestVars, treeVars>>
    /\ cpc = "precalc"
    /\ idx < Len(stale)
    /\ idx' = idx + 1
    /\ LET c == stale[idx + 1]
           before == IF c \in DOMAIN code_cols THEN code_cols[c].version ELSE ""
       IN  IF ~asked.force /\ already_cached(code_trees, code_cols, c, clock)
             THEN /\ skip_count' = skip_count + 1
                  /\ last' = [code |-> c, outcome |-> "skipped", ok |-> TRUE,
                              at |-> clock, version_before |-> before]
                  /\ UNCHANGED <<code_trees, code_cols, success_count, error_count>>
             ELSE \E fault \in {"none", "build_error", "write_error"} :
                    LET outcome == ChildOutcome(db, code_stats, c, fault) IN
                    /\ last' = [code |-> c, outcome |-> outcome,
                                ok |-> outcome = "success", at |-> clock,
                                version_before |-> before]
                    /\ IF outcome = "success"
                         THEN /\ code_trees' = Put(code_trees, c, clock)
                              /\ code_cols' = Put(code_cols, c, SavedCols(clock))
                              /\ success_count' = success_count + 1
                              /\ error_count' = error_count
                         ELSE /\ error_count' = error_count + 1
                              /\ UNCHANGED <<code_trees, code_cols, success_count>>
                    /\ skip_count' = skip_count
    /\ UNCHANGED <<clock, cpc, stale, asked, code_stats, exit_code, run_outcome>>
    /\ UNCHANGED <<pc2, rc2, cpc2, stale2, idx2, error_count2, exit_code2, pipelineVars>>

\* The summary of precalculate_all, and sys.exit(0).
PrecalculateReturn ==
    /\ UNCHANGED <<ingestVars, treeVars>>
    /\ cpc = "precalc"
    /\ idx = Len(stale)
    /\ cpc' = "idle"
    /\ stale' = <<>>
    /\ asked' = NoCall
    /\ idx' = 0
    /\ success_count' = 0
    /\ error_count' = 0
    /\ skip_count' = 0
    /\ last' = NoAttempt
    /\ UNCHANGED <<code_trees, code_cols, code_stats, clock, exit_code, run_outcome>>
    /\ UNCHANGED <<pc2, rc2, cpc2, stale2, idx2, error_count2, exit_code2, pipelineVars>>

(***************************************************************************)
(* daily_pipeline.py: main runs the steps as child processes, in order.    *)
(***************************************************************************)
\* The steps main hands to _run, in its order.
PipelineSteps ==
    <<"download_incremental", "integrity", "ingest_pg_daily", "compute_code_stats",
      "regenerate_caches">>

\* report before a step has filled it.
NoReport == [steps |-> [st \in {} |-> ""], sanity_ok |-> "unset"]

\* What _run returns: the return code of the child, 124 after a timeout.
ReturnCodes == {0, 1, 2, 124}

\* The step main goes to after the step st.
StepAfter(st) ==
    CASE st = "download_incremental" -> "integrity"
      [] st = "integrity" -> "ingest_pg_daily"
      [] st = "ingest_pg_daily" -> "compute_code_stats"
      [] st = "compute_code_stats" -> "regenerate_caches"
      [] st = "regenerate_caches" -> "sanity"

\* The value main returns after the step st came back with the code; -1: it goes on.
ReturnAfter(st, code) ==
    CASE st = "download_incremental" /\ code # 0 -> 3
      [] st = "integrity" /\ code \notin {0, 2} -> 4
      [] st = "ingest_pg_daily" /\ code # 0 -> 5
      [] OTHER -> -1

\* main up to "try": _acquire_lock, "return 2" when the lock file exists.
PipelineStart ==
    /\ UNCHANGED <<ingestVars, treeVars, cacheVars>>
    /\ UNCHANGED <<pc2, rc2, cpc2, stale2, idx2, error_count2, exit_code2, skip_count>>
    /\ ppc = "idle"
    /\ report' = NoReport
    /\ IF pipeline_lock
         THEN /\ pipeline_rc' = 2
              /\ UNCHANGED <<ppc, pipeline_lock>>
         ELSE /\ pipeline_lock' = TRUE
              /\ pipeline_rc' = -1
              /\ ppc' = PipelineSteps[1]

\* One of the steps 1 to 5 of main: _run, report["steps"][...] = rc, and the
\* test of rc; subprocess.run may raise instead of returning.
PipelineStep ==
    /\ UNCHANGED <<ingestVars, treeVars, cacheVars>>
    /\ UNCHANGED <<pc2, rc2, cpc2, stale2, idx2, error_count2, exit_code2, skip_count>>
    /\ ppc \in Range(PipelineSteps)
    /\ \E raised \in BOOLEAN, code \in ReturnCodes :
          IF raised
            THEN IF ppc = "regenerate_caches"
                   THEN /\ report' = [report EXCEPT !.steps = Put(@, ppc, "error")]
                        /\ ppc' = StepAfter(ppc)
                        /\ UNCHANGED pipeline_rc
                   ELSE /\ pipeline_rc' = traceback_code
                        /\ ppc' = "finally"
                        /\ UNCHANGED report
            ELSE /\ report' = [report EXCEPT !.steps = Put(@, ppc, ToString(code))]
                 /\ IF ReturnAfter(ppc, code) # -1
                      THEN /\ pipeline_rc' = ReturnAfter(ppc, code)
                           /\ ppc' = "finally"
                      ELSE /\ ppc' = StepAfter(ppc)
                           /\ UNCHANGED pipeline_rc
    /\ UNCHANGED pipeline_lock

\* Step 6 of main: _sanity, "return 7" or "return 0".
PipelineSanity ==
    /\ UNCHANGED <<ingestVars, treeVars, cacheVars>>
    /\ UNCHANGED <<pc2, rc2, cpc2, stale2, idx2, error_count2, exit_code2, skip_count>>
    /\ ppc = "sanity"
    /\ \E ok \in BOOLEAN :
          /\ report' = [report EXCEPT !.sanity_ok = IF ok THEN "true" ELSE "false"]
          /\ pipeline_rc' = IF ok THEN 0 ELSE 7
    /\ ppc' = "finally"
    /\ UNCHANGED pipeline_lock

\* "finally" of main: the report file is written, then the lock released;
\* when mkdir or write_text raises, _release_lock() is not reached and the
\* exception takes the place of the value returned.
PipelineFinally ==
    /\ UNCHANGED <<ingestVars, treeVars, cacheVars>>
    /\ UNCHANGED <<pc2, rc2, cpc2, stale2, idx2, error_count2, exit_code2, skip_count>>
    /\ ppc = "finally"
    /\ \E written_report \in BOOLEAN :
          IF written_report
            THEN pipeline_lock' = FALSE /\ UNCHANGED pipeline_rc
            ELSE pipeline_rc' = traceback_code /\ UNCHANGED pipeline_lock
    /\ ppc' = "idle"
    /\ UNCHANGED report

\* sys.exit(1) of "except Exception" under __main__.
critical_code == 1

\* get_invalidation_stats or get_stale_codes raises (the store is down):
\* the exception escapes main.
RunFails ==
    /\ UNCHANGED <<ingestVars, treeVars, otherVars>>
    /\ cpc = "idle"
    /\ exit_code' = critical_code
    /\ run_outcome' = "fatal"
    /\ UNCHANGED <<code_trees, code_cols, code_stats, clock, cpc, stale, asked,
                   idx, success_count, error_count, last>>

\* An hour passes between two runs of the script.
Tick ==
    /\ UNCHANGED <<ingestVars, treeVars, otherVars>>
    /\ cpc = "idle"
    /\ clock < MaxClock
    /\ clock' = clock + 1
    /\ UNCHANGED <<code_trees, code_cols, code_stats, cpc, stale, asked, idx,
                   success_count, error_count, last, exit_code, run_outcome>>

(***************************************************************************)
(* The scenarios of the ingestion: an archive directory and the            *)
(* invocations of run made on it, on an empty database.                    *)
(***************************************************************************)
ArticleMember(ts, id) ==
    XmlMember(ts, <<"legi", "LEGITEXT1", "article", id>>, Xml("ARTICLE", id))

SuppressionMember(lines) ==
    DatMember("20260101-000000", <<"legi", "liste_suppression">>, lines)

\* The same article LEGIARTI1 comes under two snapshot folders.
Art1 == ArticleMember("20260101-000000", "LEGIARTI1")

Art1Again == ArticleMember("20260102-000000", "LEGIARTI1")

Art2 == ArticleMember("20260101-000000", "LEGIARTI2")

Art3 == ArticleMember("20260101-000000", "LEGIARTI3")

Art4 == ArticleMember("20260101-000000", "LEGIARTI4")

\* A manifest whose one token carries the id of LEGIARTI1.
SuppressArt1 == SuppressionMember(<< <<"LEGIARTI1">> >>)

\* A manifest with a blank line, a comment and a token that carries no id.
SuppressWord == SuppressionMember(<< <<>>, <<"#", "LEGIARTI2">>, <<"article">> >>)

MemberUniverse == {Art1, Art1Again, Art2, Art3, Art4, SuppressArt1, SuppressWord}

EmptyDir == [s \in Sources |-> [freemium |-> {}, incremental |-> {}]]

Invocation(m, ss) == [mode |-> m, sources |-> ss]

\* One freemium archive of LEGI with any members, ingested by one init.
SingleArchiveScenarios ==
    {[dir |-> [EmptyDir EXCEPT !["LEGI"].freemium = {Archive("freemium", 2, ms)}],
      todo |-> <<Invocation("init", <<"LEGI">>)>>,
      lock |-> FALSE] : ms \in SeqsUpTo(MemberUniverse, MaxMembers) \ {<<>>}}

\* LEGI and JORF in one init: the JORF archive comes second.
TwoSourceScenarios ==
    {[dir |-> [EmptyDir EXCEPT !["LEGI"].freemium = {Archive("freemium", 2, ms)},
                               !["JORF"].freemium = {Archive("freemium", 2, js)}],
      todo |-> <<Invocation("init", <<"LEGI", "JORF">>)>>,
      lock |-> FALSE] :
        ms \in {<<Art1>>, <<Art1, Art2>>},
        js \in {<<SuppressArt1>>, <<Art2, SuppressArt1>>, <<Art1Again>>}}

\* A freemium and incrementals dated before and after it, one article each;
\* an init, or a daily, and then a daily.
SeveralArchiveScenarios ==
    {[dir |-> [EmptyDir EXCEPT
                 !["LEGI"].freemium = {Archive("freemium", 2, <<f>>)},
                 !["LEGI"].incremental =
                     {Archive("incremental", k, <<IF k = 1 THEN i1 ELSE i3>>) : k \in ks}],
      todo |-> <<Invocation(m, <<"LEGI">>), Invocation("daily", <<"LEGI">>)>>,
      lock |-> l] :
        f \in {Art1, Art2}, i1 \in {Art1Again, Art2}, i3 \in {Art1Again, Art3},
        ks \in SUBSET {1, 3}, m \in {"init", "daily"}, l \in BOOLEAN}

IngestScenarios ==
    SingleArchiveScenarios \cup TwoSourceScenarios \cup SeveralArchiveScenarios

(***************************************************************************)
(* The parts of the state a specification leaves at rest.                  *)
(***************************************************************************)
IngestAtRest ==
    /\ dir = EmptyDir
    /\ todo = <<>>
    /\ lock = FALSE
    /\ state = FreshState
    /\ inv = NoInvocation
    /\ pc = "idle"
    /\ rc = -1
    /\ srcs = <<>>
    /\ source = ""
    /\ archives = <<>>
    /\ archive = NoArchive
    /\ members = <<>>
    /\ pending = <<>>
    /\ written = 0
    /\ base = EmptyTable
    /\ commits = <<>>

TreeAtRest ==
    /\ tpc = "idle"
    /\ code_id = ""
    /\ header = NoHeader
    /\ root_ids = <<>>
    /\ all_sections = NoSections
    /\ remaining_ids = {}
    /\ wave_num = 0
    /\ queries = 0
    /\ fetches = 0
    /\ result = NoResult

RivalAtRest ==
    /\ pc2 = "idle"
    /\ rc2 = -1
    /\ cpc2 = "idle"
    /\ stale2 = <<>>
    /\ idx2 = 0
    /\ error_count2 = 0
    /\ exit_code2 = -1
    /\ skip_count = 0

PipelineAtRest ==
    /\ ppc = "idle"
    /\ report = NoReport
    /\ pipeline_lock = FALSE
    /\ pipeline_rc = -1

OtherAtRest == RivalAtRest /\ PipelineAtRest

CacheAtRest ==
    /\ code_trees = [c \in {} |-> 0]
    /\ clock = StartClock
    /\ cpc = "idle"
    /\ stale = <<>>
    /\ asked = NoCall
    /\ idx = 0
    /\ error_count = 0
    /\ success_count = 0
    /\ code_cols = [c \in {} |-> 0]
    /\ code_stats = {}
    /\ exit_code = -1
    /\ last = NoAttempt
    /\ run_outcome = ""


InitIngest ==
    /\ OtherAtRest
    /\ \E sc \in IngestScenarios :
          /\ dir = sc.dir
          /\ todo = sc.todo
          /\ lock = sc.lock
    /\ db = EmptyTable
    /\ tx = EmptyTable
    /\ state = FreshState
    /\ inv = NoInvocation
    /\ pc = "idle"
    /\ rc = -1
    /\ srcs = <<>>
    /\ source = ""
    /\ archives = <<>>
    /\ archive = NoArchive
    /\ members = <<>>
    /\ pending = <<>>
    /\ written = 0
    /\ base = EmptyTable
    /\ commits = <<>>
    /\ TreeAtRest
    /\ CacheAtRest

NextIngest ==
    \/ RunStart
    \/ NextSource
    \/ RunReturn
    \/ OpenArchive
    \/ ReadMember
    \/ CommitManifest
    \/ UpsertRow
    \/ CommitBatch
    \/ EndOfArchive
    \/ ArchiveDone
    \/ Kill

SpecIngest == InitIngest /\ [][NextIngest]_vars

\* An archive in which an entry with a NUL character may stand among
\* articles, and an incremental after it; one init.
NulNotice ==
    XmlMember("20260101-000000", <<"legi", "global", "notice">>,
              [NoXml EXCEPT !.enc = "nul"])

MalformedScenarios ==
    {[dir |-> [EmptyDir EXCEPT
                 !["LEGI"].freemium = {Archive("freemium", 2, ms)},
                 !["LEGI"].incremental = {Archive("incremental", 3, <<Art3>>)}],
      todo |-> <<Invocation("init", <<"LEGI">>)>>,
      lock |-> FALSE] :
        ms \in SeqsUpTo({Art1, Art2, NulNotice, SuppressWord}, 3) \ {<<>>}}

InitMalformed ==
    /\ OtherAtRest
    /\ \E sc \in MalformedScenarios :
          /\ dir = sc.dir
          /\ todo = sc.todo
          /\ lock = sc.lock
    /\ db = EmptyTable
    /\ tx = EmptyTable
    /\ state = FreshState
    /\ inv = NoInvocation
    /\ pc = "idle"
    /\ rc = -1
    /\ srcs = <<>>
    /\ source = ""
    /\ archives = <<>>
    /\ archive = NoArchive
    /\ members = <<>>
    /\ pending = <<>>
    /\ written = 0
    /\ base = EmptyTable
    /\ commits = <<>>
    /\ TreeAtRest
    /\ CacheAtRest

NextMalformed ==
    \/ NextIngest
    \/ UpsertRaises

SpecMalformed == InitMalformed /\ [][NextMalformed]_vars

\* The store may fail under a run.
InitFault ==
    /\ InitIngest
    /\ \E sc \in TwoSourceScenarios \cup SeveralArchiveScenarios :
          /\ dir = sc.dir
          /\ todo = sc.todo
          /\ lock = sc.lock

NextFault ==
    \/ NextIngest
    \/ StoreFails

SpecFault == InitFault /\ [][NextFault]_vars

\* Two invocations of run at once.
LockScenarios == TwoSourceScenarios \cup SeveralArchiveScenarios

InitLock ==
    /\ InitIngest
    /\ \E sc \in LockScenarios :
          /\ dir = sc.dir
          /\ todo = sc.todo
          /\ lock = sc.lock

NextLock ==
    \/ NextIngest
    \/ Run2Start
    \/ Run2Return

SpecLock == InitLock /\ [][NextLock]_vars

(***************************************************************************)
(* The stores the tree is built from: what an ingestion of these members   *)
(* of LEGI leaves in the table.                                            *)
(***************************************************************************)
TheCode == "LEGITEXT1"

OtherCode == "LEGITEXT2"

PastDate == "2020-01-01"

HeaderMember(code) ==
    XmlMember("20260101-000000", <<"legi", code, "texte", "version", code>>,
              [Xml("TEXTE_VERSION", code) EXCEPT !.titre = "Code civil",
                                                 !.nature = "CODE",
                                                 !.etat = "VIGUEUR"])

\* A section of the code; parent is its CONTEXTE/TEXTE id.
SectionMember(id, parent, subs, arts) ==
    XmlMember("20260101-000000", <<"legi", "section_ta", id>>,
              [Xml("SECTION_TA", id) EXCEPT !.titre = id, !.ctx_id_txt = parent,
                                            !.subs = subs, !.arts = arts])

RECURSIVE Ingested(_)
Ingested(ms) ==
    IF ms = <<>> THEN EmptyTable
    ELSE UpsertOne(Ingested(Tail(ms)), Row("LEGI", Head(ms), 2))

S(i) == SectionIdSeq[i]

Current(id) == SectionRef(id, OpenEnded, "VIGUEUR")

Expired(id) == SectionRef(id, PastDate, "ABROGE")

\* Three sections with any references among them, current or expired, to
\* a section that is a root, to one that is not, to one that is absent.
GraphStores ==
    {Ingested(<<HeaderMember(TheCode),
                SectionMember(S(1), TheCode, subs1, <<>>),
                SectionMember(S(2), p2, subs2, <<>>),
                SectionMember(S(3), p3, subs3, <<>>)>>) :
        subs1 \in SeqsUpTo({Current(S(2)), Expired(S(2)), Current(S(3)), Expired(S(3))}, 2),
        p2 \in {TheCode, OtherCode},
        subs2 \in {<<>>, <<Current(S(3))>>, <<Expired(S(3))>>, <<Current(S(1))>>,
                   <<Current(S(4))>>},
        p3 \in {TheCode, OtherCode},
        subs3 \in {<<>>, <<Current(S(2))>>}}

\* A chain of n sections under one root; a closed chain ends on its root.
ChainStore(n, closed) ==
    Ingested(<<HeaderMember(TheCode)>> \o
             [i \in 1..n |->
                SectionMember(S(i), IF i = 1 THEN TheCode ELSE OtherCode,
                              IF i < n THEN <<Current(S(i + 1))>>
                              ELSE IF closed THEN <<Current(S(1))>> ELSE <<>>,
                              <<>>)])

ChainStores == {ChainStore(n, closed) : n \in 1..MaxChain, closed \in BOOLEAN}

\* A root with two children, each with two children.
BinaryStore ==
    Ingested(<<HeaderMember(TheCode)>> \o
             [i \in 1..7 |->
                SectionMember(S(i), IF i = 1 THEN TheCode ELSE OtherCode,
                              IF i <= 3 THEN <<Current(S(2 * i)), Current(S(2 * i + 1))>>
                              ELSE <<>>,
                              <<>>)])

\* n article references; every skip-th one (none when skip = 0) is expired,
\* and every fifth one has ended but is still in force.
ArticleRefs(n, skip) ==
    [i \in 1..n |->
        ArticleRef("LEGIARTI" \o ToString(i), ToString(i),
                   IF (skip # 0 /\ i % skip = 0) \/ i % 5 = 0 THEN PastDate ELSE OpenEnded,
                   IF skip # 0 /\ i % skip = 0 THEN "ABROGE" ELSE "VIGUEUR")]

ArticleCounts ==
    {0, 1, 3, article_cap - 1, article_cap, article_cap + 1, MaxArticles}

\* One root section with a list of article references.
ArticleStores ==
    {Ingested(<<HeaderMember(TheCode),
                SectionMember(S(1), TheCode, <<>>, ArticleRefs(n, skip))>>) :
        n \in ArticleCounts, skip \in {0, 3, 7}}

TreeStores == GraphStores \cup ChainStores \cup {BinaryStore} \cup ArticleStores

InitTree ==
    /\ OtherAtRest
    /\ db \in TreeStores
    /\ tx = db
    /\ IngestAtRest
    /\ TreeAtRest
    /\ CacheAtRest

NextTree ==
    \/ FetchHeader
    \/ FetchRoots
    \/ Wave
    \/ Assemble

SpecTree == InitTree /\ [][NextTree]_vars

\* Builds over the graphs and the chains of sections, the cyclic ones and
\* those that name absent sections among them.
InitWaves ==
    /\ OtherAtRest
    /\ db \in GraphStores \cup ChainStores
    /\ tx = db
    /\ IngestAtRest
    /\ TreeAtRest
    /\ CacheAtRest

\* The build is a sequential program: it takes its next step.
SpecWaves == InitWaves /\ [][NextTree]_vars /\ WF_vars(NextTree)

(***************************************************************************)
(* The cache tables the staleness query runs on.                           *)
(***************************************************************************)
CacheCodes == TextIds

\* The ages, in hours, of a cache row at the start.
StartAges == {1, 23, 24, 25, 48}

\* The header of LEGITEXT1 is stored, that of LEGITEXT2 is not, and
\* LEGITEXT3 has no row in code_stats.
CacheStore == Ingested(<<HeaderMember(TheCode)>>)

StatsCodes == {TheCode, OtherCode}

\* Every row was written by save_to_cache, at its updated_at.
InitCache ==
    /\ OtherAtRest
    /\ \E codes \in SUBSET CacheCodes :
          code_trees \in [codes -> {StartClock - a : a \in StartAges}]
    /\ code_cols = [c \in DOMAIN code_trees |-> SavedCols(code_trees[c])]
    /\ code_stats = StatsCodes
    /\ clock = StartClock
    /\ cpc = "idle"
    /\ stale = <<>>
    /\ asked = NoCall
    /\ idx = 0
    /\ error_count = 0
    /\ success_count = 0
    /\ exit_code = -1
    /\ last = NoAttempt
    /\ run_outcome = ""
    /\ db = CacheStore
    /\ tx = db
    /\ IngestAtRest
    /\ TreeAtRest

NextCache ==
    \/ SelectStale
    \/ RegenerateNext
    \/ RegenerateReturn
    \/ RunFails
    \/ Tick

\* The runs that step 5 of daily_pipeline.py starts, day after day.
NextDaily ==
    \/ SelectStaleDaily
    \/ RegenerateNext
    \/ RegenerateReturn
    \/ Tick

SpecDaily == InitCache /\ [][NextDaily]_vars /\ WF_vars(NextDaily)

SpecCache == InitCache /\ [][NextCache]_vars

\* Runs of precalculate_all_trees.py on a cache with rows of this version of
\* the materializer and of an earlier one, fresh, 24 hours old and older.
InitPrecalculate ==
    /\ OtherAtRest
    /\ \E codes \in SUBSET StatsCodes :
          /\ code_trees \in [codes -> {StartClock - a : a \in {1, 24, 25}}]
          /\ \E versions \in [codes -> {"1.0", version_tag}] :
                code_cols = [c \in codes |->
                               [generated_at |-> code_trees[c], version |-> versions[c]]]
    /\ code_stats = StatsCodes
    /\ clock = StartClock
    /\ cpc = "idle"
    /\ stale = <<>>
    /\ asked = NoCall
    /\ idx = 0
    /\ error_count = 0
    /\ success_count = 0
    /\ exit_code = -1
    /\ last = NoAttempt
    /\ run_outcome = ""
    /\ db = CacheStore
    /\ tx = db
    /\ IngestAtRest
    /\ TreeAtRest

NextPrecalculate ==
    \/ PrecalculateStart
    \/ PrecalculateNext
    \/ PrecalculateReturn
    \/ Tick

SpecPrecalculate == InitPrecalculate /\ [][NextPrecalculate]_vars

\* An ingestion, builds of trees, a regeneration run and a run of
\* precalculate_all_trees.py, at the same time on one database.
StoreScenarios ==
    {[dir |-> [EmptyDir EXCEPT !["LEGI"].freemium = {Archive("freemium", 2, <<a, b>>)}],
      todo |-> <<Invocation("init", <<"LEGI">>)>>,
      lock |-> FALSE] : a \in {HeaderMember(OtherCode)}, b \in {Art1, SuppressArt1}}

InitStore ==
    /\ OtherAtRest
    /\ \E sc \in StoreScenarios :
          /\ dir = sc.dir
          /\ todo = sc.todo
          /\ lock = sc.lock
    /\ db = ChainStore(2, FALSE)
    /\ tx = db
    /\ state = FreshState
    /\ inv = NoInvocation
    /\ pc = "idle"
    /\ rc = -1
    /\ srcs = <<>>
    /\ source = ""
    /\ archives = <<>>
    /\ archive = NoArchive
    /\ members = <<>>
    /\ pending = <<>>
    /\ written = 0
    /\ base = EmptyTable
    /\ commits = <<>>
    /\ TreeAtRest
    /\ code_trees = [c \in StatsCodes |-> StartClock - 25]
    /\ code_cols = [c \in StatsCodes |-> SavedCols(code_trees[c])]
    /\ code_stats = StatsCodes
    /\ clock = StartClock
    /\ cpc = "idle"
    /\ stale = <<>>
    /\ asked = NoCall
    /\ idx = 0
    /\ error_count = 0
    /\ success_count = 0
    /\ exit_code = -1
    /\ last = NoAttempt
    /\ run_outcome = ""

NextStore ==
    \/ NextIngest
    \/ NextTree
    \/ SelectStaleDaily
    \/ RegenerateNext
    \/ RegenerateReturn
    \/ PrecalculateStart
    \/ PrecalculateNext
    \/ PrecalculateReturn

SpecStore == InitStore /\ [][NextStore]_vars

(***************************************************************************)
(* The archives directory between two runs: download_archives.py adds      *)
(* incrementals, check_integrity.py --auto-fix deletes corrupted archives. *)
(***************************************************************************)
\* The date keys of the incrementals the remote listing may offer.
MaxKey == 4

RemoteKeys == 2..MaxKey

\* download_incremental: an archive of the listing of LEGI that is not
\* there yet; it carries a suppression list.
DownloadIncremental ==
    /\ UNCHANGED <<treeVars, cacheVars, otherVars>>
    /\ pc = "idle"
    /\ todo # <<>>
    /\ \E k \in RemoteKeys :
          /\ \A a \in dir["LEGI"].incremental : a.key # k
          /\ dir' = [dir EXCEPT !["LEGI"].incremental =
                                    @ \cup {Archive("incremental", k, <<SuppressArt1>>)}]
    /\ UNCHANGED <<db, tx, lock, state, todo, inv, pc, rc, srcs, source, archives,
                   archive, members, pending, written, base, commits>>

\* check_integrity.py --auto-fix: an incremental of LEGI that fails gzip -t
\* is deleted.
AutoFix ==
    /\ UNCHANGED <<treeVars, cacheVars, otherVars>>
    /\ pc = "idle"
    /\ todo # <<>>
    /\ \E a \in dir["LEGI"].incremental :
          dir' = [dir EXCEPT !["LEGI"].incremental = @ \ {a}]
    /\ UNCHANGED <<db, tx, lock, state, todo, inv, pc, rc, srcs, source, archives,
                   archive, members, pending, written, base, commits>>

\* An init of LEGI and a daily, or two dailies, with archives that arrive
\* and archives that are deleted between the runs.
SelectScenarios ==
    {[dir |-> [EmptyDir EXCEPT
                 !["LEGI"].freemium = {Archive("freemium", 1, <<Art1>>)},
                 !["LEGI"].incremental = {Archive("incremental", k, <<Art2>>) : k \in ks}],
      todo |-> <<Invocation(m, <<"LEGI">>), Invocation("daily", <<"LEGI">>)>>,
      lock |-> FALSE] : ks \in SUBSET {2, 3}, m \in {"init", "daily"}}

InitSelect ==
    /\ OtherAtRest
    /\ \E sc \in SelectScenarios :
          /\ dir = sc.dir
          /\ todo = sc.todo
          /\ lock = sc.lock
    /\ db = EmptyTable
    /\ tx = EmptyTable
    /\ state = FreshState
    /\ inv = NoInvocation
    /\ pc = "idle"
    /\ rc = -1
    /\ srcs = <<>>
    /\ source = ""
    /\ archives = <<>>
    /\ archive = NoArchive
    /\ members = <<>>
    /\ pending = <<>>
    /\ written = 0
    /\ base = EmptyTable
    /\ commits = <<>>
    /\ TreeAtRest
    /\ CacheAtRest

NextSelect ==
    \/ NextIngest
    \/ DownloadIncremental
    \/ AutoFix

SpecSelect == InitSelect /\ [][NextSelect]_vars

\* daily_pipeline.py, step 3, night after night: the next daily run of LEGI
\* is asked for once the one before has returned.
NightlyIngest ==
    /\ UNCHANGED <<treeVars, cacheVars, otherVars>>
    /\ pc = "idle"
    /\ todo = <<>>
    /\ todo' = <<Invocation("daily", <<"LEGI">>)>>
    /\ UNCHANGED <<db, tx, lock, state, dir, inv, pc, rc, srcs, source, archives,
                   archive, members, pending, written, base, commits>>

\* An init of LEGI with or without incrementals, then a daily every night;
\* archives arrive and corrupted ones are deleted between the runs.
NightlyScenarios ==
    {[dir |-> [EmptyDir EXCEPT
                 !["LEGI"].freemium = {Archive("freemium", 1, <<Art1>>)},
                 !["LEGI"].incremental = {Archive("incremental", k, <<Art2>>) : k \in ks}],
      todo |-> <<Invocation("init", <<"LEGI">>)>>,
      lock |-> FALSE] : ks \in SUBSET {2}}

InitNightly ==
    /\ OtherAtRest
    /\ \E sc \in NightlyScenarios :
          /\ dir = sc.dir
          /\ todo = sc.todo
          /\ lock = sc.lock
    /\ db = EmptyTable
    /\ tx = EmptyTable
    /\ state = FreshState
    /\ inv = NoInvocation
    /\ pc = "idle"
    /\ rc = -1
    /\ srcs = <<>>
    /\ source = ""
    /\ archives = <<>>
    /\ archive = NoArchive
    /\ members = <<>>
    /\ pending = <<>>
    /\ written = 0
    /\ base = EmptyTable
    /\ commits = <<>>
    /\ TreeAtRest
    /\ CacheAtRest

\* The steps of a run that no one terminates.
RunSteps ==
    \/ RunStart
    \/ NextSource
    \/ RunReturn
    \/ OpenArchive
    \/ ReadMember
    \/ CommitManifest
    \/ UpsertRow
    \/ CommitBatch
    \/ EndOfArchive
    \/ ArchiveDone

NextNightly ==
    \/ RunSteps
    \/ NightlyIngest
    \/ DownloadIncremental
    \/ AutoFix

\* A run goes on to its end, and the night comes.
SpecNightly ==
    InitNightly /\ [][NextNightly]_vars /\ WF_vars(RunSteps) /\ WF_vars(NightlyIngest)

\* Runs that go on to their end unless the store fails under them or the
\* process is terminated.
NextAbort ==
    \/ RunSteps
    \/ StoreFails
    \/ Kill

SpecAbort == InitFault /\ [][NextAbort]_vars /\ WF_vars(RunSteps)

\* Runs of daily_pipeline.py, the first with or without a lock file left.
InitPipeline ==
    /\ RivalAtRest
    /\ ppc = "idle"
    /\ report = NoReport
    /\ pipeline_lock \in BOOLEAN
    /\ pipeline_rc = -1
    /\ db = EmptyTable
    /\ tx = db
    /\ IngestAtRest
    /\ TreeAtRest
    /\ CacheAtRest

NextPipeline ==
    \/ PipelineStart
    \/ PipelineStep
    \/ PipelineSanity
    \/ PipelineFinally

SpecPipeline == InitPipeline /\ [][NextPipeline]_vars

\* Runs of the ingestion and runs of the pipeline, each with or without a
\* lock file left; the runs return or are left by an exception.
HeldLockScenarios ==
    {[dir |-> [EmptyDir EXCEPT
                 !["LEGI"].freemium = {Archive("freemium", 2, <<Art1>>)},
                 !["LEGI"].incremental =
                     {Archive("incremental", k, <<IF k = 1 THEN Art2 ELSE SuppressArt1>>) :
                         k \in ks}],
      todo |-> <<Invocation(m, <<"LEGI">>), Invocation("daily", <<"LEGI">>)>>,
      lock |-> l] : ks \in SUBSET {1, 3}, m \in {"init", "daily"}, l \in BOOLEAN}

InitHeldLock ==
    /\ RivalAtRest
    /\ ppc = "idle"
    /\ report = NoReport
    /\ pipeline_lock \in BOOLEAN
    /\ pipeline_rc = -1
    /\ \E sc \in HeldLockScenarios :
          /\ dir = sc.dir
          /\ todo = sc.todo
          /\ lock = sc.lock
    /\ db = EmptyTable
    /\ tx = EmptyTable
    /\ state = FreshState
    /\ inv = NoInvocation
    /\ pc = "idle"
    /\ rc = -1
    /\ srcs = <<>>
    /\ source = ""
    /\ archives = <<>>
    /\ archive = NoArchive
    /\ members = <<>>
    /\ pending = <<>>
    /\ written = 0
    /\ base = EmptyTable
    /\ commits = <<>>
    /\ TreeAtRest
    /\ CacheAtRest

NextHeldLock ==
    \/ RunSteps
    \/ StoreFails
    \/ NextPipeline

SpecHeldLock == InitHeldLock /\ [][NextHeldLock]_vars

\* Two invocations of regenerate_stale_caches.py at once: the one of the
\* daily pipeline and another, on a cache of two codes, both stale.
InitPair ==
    /\ InitCache
    /\ DOMAIN code_trees = StatsCodes
    /\ \A c \in StatsCodes : clock - code_trees[c] \in {25, 48}

NextPair ==
    \/ SelectStaleDaily
    \/ RegenerateNext
    \/ RegenerateReturn
    \/ Select2
    \/ Regenerate2Next
    \/ Regenerate2Return

SpecPair == InitPair /\ [][NextPair]_vars

\* The entries of an archive whose ids are resolved in the three ways: the
\* version and the structure of the code LEGITEXT1, an article in the folder
\* of the code as it parses and as it does not, and a document whose path
\* carries no id, as it parses and, under both snapshot folders, as it does
\* not.
VersionEntry == HeaderMember(TheCode)

StructEntry ==
    XmlMember("20260101-000000", <<"legi", TheCode, "texte", "struct", TheCode>>,
              [Xml("TEXTELR", TheCode) EXCEPT !.nature = "CODE"])

UnparsedArt1Again == [Art1Again EXCEPT !.xml = NoXml]

Stray == XmlMember("20260101-000000", <<"legi", "global", "index">>, Xml("ARTICLE", "LEGIARTI2"))

UnparsedStray == [Stray EXCEPT !.xml = NoXml]

UnparsedStrayAgain == [UnparsedStray EXCEPT !.path.ts = "20260102-000000"]

\* A document whose bytes are no XML and no UTF-8.
GarbledNotice ==
    XmlMember("20260101-000000", <<"legi", "global", "notice">>,
              [NoXml EXCEPT !.enc = "invalid"])

IdMembers ==
    {VersionEntry, StructEntry, Art1, UnparsedArt1Again, Stray, UnparsedStray,
     UnparsedStrayAgain, GarbledNotice, SuppressWord}

\* One freemium archive of LEGI with two of these entries, ingested by one init.
IdScenarios ==
    {[dir |-> [EmptyDir EXCEPT !["LEGI"].freemium = {Archive("freemium", 2, <<a, b>>)}],
      todo |-> <<Invocation("init", <<"LEGI">>)>>,
      lock |-> FALSE] : a \in IdMembers, b \in IdMembers}

InitIds ==
    /\ OtherAtRest
    /\ \E sc \in IdScenarios :
          /\ dir = sc.dir
          /\ todo = sc.todo
          /\ lock = sc.lock
    /\ db = EmptyTable
    /\ tx = EmptyTable
    /\ state = FreshState
    /\ inv = NoInvocation
    /\ pc = "idle"
    /\ rc = -1
    /\ srcs = <<>>
    /\ source = ""
    /\ archives = <<>>
    /\ archive = NoArchive
    /\ members = <<>>
    /\ pending = <<>>
    /\ written = 0
    /\ base = EmptyTable
    /\ commits = <<>>
    /\ TreeAtRest
    /\ CacheAtRest

SpecIds == InitIds /\ [][NextIngest]_vars

\* Manifests longer than the cap: 5001 tokens that name LEGIARTI3, but for
\* the 1001st, which names LEGIARTI2, and for the last, which names
\* LEGIARTI1 or carries no id.
LongManifest(final) ==
    SuppressionMember([i \in 1..(token_cap + 1) |->
                          IF i = token_cap + 1 THEN final
                          ELSE IF i = delete_batch_size + 1 THEN <<"LEGIARTI2">>
                          ELSE <<"LEGIARTI3">>])

\* A manifest whose one token carries no id, and "_".
SuppressCodeCivil == SuppressionMember(<< <<"code_civil">> >>)

\* A document in a folder whose name differs from that token in one character.
Hyphenated == XmlMember("20260101-000000", <<"legi", "code-civil", "index">>, Xml("ARTICLE", "LEGIARTI4"))

Manifests ==
    {LongManifest(<<"LEGIARTI1">>), LongManifest(<<"article">>), SuppressArt1,
     SuppressWord, SuppressCodeCivil}

\* One freemium archive of LEGI: up to two entries and then a manifest.
ManifestScenarios ==
    {[dir |-> [EmptyDir EXCEPT !["LEGI"].freemium = {Archive("freemium", 2, cs \o <<m>>)}],
      todo |-> <<Invocation("init", <<"LEGI">>)>>,
      lock |-> FALSE] :
        cs \in SeqsUpTo({Art1, Art2, Stray, Hyphenated}, 2), m \in Manifests}

InitManifest ==
    /\ OtherAtRest
    /\ \E sc \in ManifestScenarios :
          /\ dir = sc.dir
          /\ todo = sc.todo
          /\ lock = sc.lock
    /\ db = EmptyTable
    /\ tx = EmptyTable
    /\ state = FreshState
    /\ inv = NoInvocation
    /\ pc = "idle"
    /\ rc = -1
    /\ srcs = <<>>
    /\ source = ""
    /\ archives = <<>>
    /\ archive = NoArchive
    /\ members = <<>>
    /\ pending = <<>>
    /\ written = 0
    /\ base = EmptyTable
    /\ commits = <<>>
    /\ TreeAtRest
    /\ CacheAtRest

SpecManifest == InitManifest /\ [][NextIngest]_vars

\* Manifests whose tokens are paths: the id of the enclosing text comes
\* before the id of the entity.
SuppressArt1ByPath ==
    SuppressionMember(<< <<"legi", "LEGITEXT1", "article", "LEGIARTI1">> >>)

SuppressArt2ByPath ==
    SuppressionMember(<< <<"legi", "LEGITEXT2", "article", "LEGIARTI2">>,
                         <<"LEGIARTI3">> >>)

\* A freemium archive of LEGI with texts and articles, and an incremental
\* with one of these manifests; one init ingests both.
PathTokenScenarios ==
    {[dir |-> [EmptyDir EXCEPT
                 !["LEGI"].freemium = {Archive("freemium", 2, cs)},
                 !["LEGI"].incremental = {Archive("incremental", 3, <<m>>)}],
      todo |-> <<Invocation("init", <<"LEGI">>)>>,
      lock |-> FALSE] :
        cs \in SeqsUpTo({HeaderMember(TheCode), HeaderMember(OtherCode), Art1, Art2,
                         Art3}, 3) \ {<<>>},
        m \in {SuppressArt1ByPath, SuppressArt2ByPath}}

InitPathToken ==
    /\ OtherAtRest
    /\ \E sc \in PathTokenScenarios :
          /\ dir = sc.dir
          /\ todo = sc.todo
          /\ lock = sc.lock
    /\ db = EmptyTable
    /\ tx = EmptyTable
    /\ state = FreshState
    /\ inv = NoInvocation
    /\ pc = "idle"
    /\ rc = -1
    /\ srcs = <<>>
    /\ source = ""
    /\ archives = <<>>
    /\ archive = NoArchive
    /\ members = <<>>
    /\ pending = <<>>
    /\ written = 0
    /\ base = EmptyTable
    /\ commits = <<>>
    /\ TreeAtRest
    /\ CacheAtRest

SpecPathToken == InitPathToken /\ [][NextIngest]_vars

\* A manifest with a token that carries an id and one that carries none.
SuppressArt1AndWord == SuppressionMember(<< <<"LEGIARTI1">>, <<"article">> >>)

\* LEGI and JORF in one init: articles of LEGI, then a JORF archive with
\* two articles and a manifest whose tokens also match the rows of LEGI.
OtherSourceScenarios ==
    {[dir |-> [EmptyDir EXCEPT !["LEGI"].freemium = {Archive("freemium", 2, ms)},
                               !["JORF"].freemium = {Archive("freemium", 2, js \o <<m>>)}],
      todo |-> <<Invocation("init", <<"LEGI", "JORF">>)>>,
      lock |-> FALSE] :
        ms \in {<<Art1>>, <<Art1, Art3>>},
        js \in {<<Art2, Art4>>, <<Art2, Art1Again>>},
        m \in {SuppressArt1, SuppressWord, SuppressArt1AndWord, SuppressArt2ByPath}}

InitOtherSource ==
    /\ OtherAtRest
    /\ \E sc \in OtherSourceScenarios :
          /\ dir = sc.dir
          /\ todo = sc.todo
          /\ lock = sc.lock
    /\ db = EmptyTable
    /\ tx = EmptyTable
    /\ state = FreshState
    /\ inv = NoInvocation
    /\ pc = "idle"
    /\ rc = -1
    /\ srcs = <<>>
    /\ source = ""
    /\ archives = <<>>
    /\ archive = NoArchive
    /\ members = <<>>
    /\ pending = <<>>
    /\ written = 0
    /\ base = EmptyTable
    /\ commits = <<>>
    /\ TreeAtRest
    /\ CacheAtRest

SpecOtherSource == InitOtherSource /\ [][NextIngest]_vars

(***************************************************************************)
(* What the claims about ingestion speak of.                               *)
(***************************************************************************)
IsContent(m) == _guess_doctype(m.path) \in {"article", "texte", "section", "xml"}

IsManifest(m) == _guess_doctype(m.path) = "suppression_list"

\* The structural id the extractor finds in a content member ("" if none).
MetaIdOf(m) == ExtractMeta(m.xml, m.path).id

\* The ids the fast path of a manifest deletes by.
NamedBy(m) == Range(ids_to_delete(_parse_suppression_list(m.lines)))

\* The manifest just applied, when pc = "commit_manifest".
AppliedManifest == archive.members[Len(archive.members) - Len(members)]

FastOnly(m) ==
    /\ _parse_suppression_list(m.lines) # <<>>
    /\ tokens_without_id(_parse_suppression_list(m.lines)) = <<>>

RowsWithMetaId(table, x) == {i \in DOMAIN table : table[i].meta.id = x}

\* C1: within one archive, a manifest's deletions apply after every content
\* entry that precedes it: an entry with id X followed by a manifest naming X
\* (and by no later entry with id X) leaves no row X when the archive is done.
C1_ManifestAfterPrecedingEntries ==
    pc = "archive_done" =>
      \A i, j \in DOMAIN archive.members :
        LET ms == archive.members IN
        ( /\ i < j
          /\ IsContent(ms[i]) /\ MetaIdOf(ms[i]) # ""
          /\ IsManifest(ms[j]) /\ MetaIdOf(ms[i]) \in NamedBy(ms[j])
          /\ \A k \in (j + 1)..Len(ms) :
                ~(IsContent(ms[k]) /\ MetaIdOf(ms[k]) = MetaIdOf(ms[i])) )
        => StructuralId(MetaIdOf(ms[i])) \notin DOMAIN db

\* The archives of the sources of the invocation that hold no manifest.
NoManifestIn(ss) ==
    \A s \in ss : \A a \in dir[s].freemium \cup dir[s].incremental :
        \A k \in DOMAIN a.members : ~IsManifest(a.members[k])

\* The date keys under which the entity with structural id x was delivered.
KeysOf(ss, x) ==
    {a.key : a \in {b \in UNION {dir[s].freemium \cup dir[s].incremental : s \in ss} :
                      \E k \in DOMAIN b.members :
                          IsContent(b.members[k]) /\ MetaIdOf(b.members[k]) = x}}

\* C2: an entity ingested twice, under different archives, has exactly one
\* row afterwards, and the row carries the later of the two updated_at.
C2_LaterUpdatedAtWins ==
    (pc = "idle" /\ rc = 0 /\ inv.mode = "init" /\ NoManifestIn(Range(inv.sources))) =>
      \A x \in ArticleIds :
        Cardinality(KeysOf(Range(inv.sources), x)) >= 2 =>
          /\ Cardinality(RowsWithMetaId(db, x)) = 1
          /\ \A i \in RowsWithMetaId(db, x) :
                \A k \in KeysOf(Range(inv.sources), x) : db[i].updated_at >= k

\* C3, as claimed: a manifest whose tokens carry a structural id removes
\* exactly the documents whose metadata id is such an id, and no other.
C3_DeletesExactlyMatchingIds ==
    (pc = "commit_manifest" /\ FastOnly(AppliedManifest)) =>
      /\ DOMAIN tx = {i \in DOMAIN db : db[i].meta.id \notin NamedBy(AppliedManifest)}
      /\ \A i \in DOMAIN tx : tx[i] = db[i]

\* C3, amended: it removes exactly the documents of the manifest's source
\* whose metadata id is such an id; every other row stays as it was.
C3_DeletesExactlyMatchingIdsOfSource ==
    (pc = "commit_manifest" /\ FastOnly(AppliedManifest)) =>
      /\ DOMAIN tx = {i \in DOMAIN db :
                        ~(db[i].source = source
                            /\ db[i].meta.id \in NamedBy(AppliedManifest))}
      /\ \A i \in DOMAIN tx : tx[i] = db[i]

\* A manifest naming LEGIARTI1 has removed its row and kept another one.
C3_Witness ==
    /\ pc = "commit_manifest"
    /\ FastOnly(AppliedManifest)
    /\ DOMAIN tx # {}
    /\ DOMAIN tx # DOMAIN db

ContentMembers(ms) == SelectSeq(ms, IsContent)

\* The archive holds only content entries, of pairwise distinct ids, none of
\* them in the table when the archive was opened.
DistinctFreshContent ==
    LET ms == archive.members IN
    /\ \A k \in DOMAIN ms : IsContent(ms[k])
    /\ \A k, l \in DOMAIN ms :
          k # l => Row(source, ms[k], 0).id # Row(source, ms[l], 0).id
    /\ \A k \in DOMAIN ms : Row(source, ms[k], 0).id \notin DOMAIN base

\* The commits of full batches so far, when no other commit happened.
FullBatches == Cardinality({k \in DOMAIN commits : commits[k].line = 559})

OnlyFullBatchesCommitted == \A k \in DOMAIN commits : commits[k].line = 559

\* C4: terminated after N complete batches were committed and before the
\* next batch commits, the store holds exactly the N*BatchSize documents of
\* those batches (beside what it held before): nothing of the batch in
\* flight is visible.
C4_CrashKeepsCommittedBatches ==
    (pc = "killed" /\ archive # NoArchive /\ DistinctFreshContent
       /\ OnlyFullBatchesCommitted) =>
      LET n == FullBatches * BatchSize
          ms == archive.members
      IN  /\ n <= Len(ms)
          /\ DOMAIN db = DOMAIN base \cup {Row(source, ms[k], 0).id : k \in 1..n}
          /\ Cardinality(DOMAIN db) = Cardinality(DOMAIN base) + n
          /\ \A i \in DOMAIN base : db[i] = base[i]
          /\ tx = db

\* Terminated with one batch committed and a row of the next one written.
C4_Witness ==
    /\ pc = "killed"
    /\ archive # NoArchive
    /\ DistinctFreshContent
    /\ OnlyFullBatchesCommitted
    /\ FullBatches >= 1
    /\ pending # <<>>
    /\ written >= 1

\* C5, as claimed: every commit follows the flush of a full batch of
\* BatchSize rows or the application of one manifest.
C5_CommitsOnlyAtFullBatchOrManifest ==
    \A k \in DOMAIN commits :
        \/ commits[k].line # 532 /\ commits[k].flushed = BatchSize
                                 /\ commits[k].written = BatchSize
        \/ commits[k].line = 532 /\ commits[k].written = 0

\* C5, amended: or, at the end of the archive, the flush of the rows left,
\* fewer than BatchSize; no commit finds a batch written in part.
C5_CommitsAtBatchManifestOrEnd ==
    \A k \in DOMAIN commits :
        \/ /\ commits[k].line = 559
           /\ commits[k].flushed = BatchSize
           /\ commits[k].written = commits[k].flushed
        \/ /\ commits[k].line = 532
           /\ commits[k].written = 0
        \/ /\ commits[k].line = 567
           /\ commits[k].flushed \in 1..(BatchSize - 1)
           /\ commits[k].written = commits[k].flushed

\* An archive with a full batch, a manifest and a last short batch is done.
C5_Witness ==
    /\ pc = "archive_done"
    /\ \E k \in DOMAIN commits : commits[k].line = 559
    /\ \E k \in DOMAIN commits : commits[k].line = 532
    /\ \E k \in DOMAIN commits : commits[k].line = 567

(***************************************************************************)
(* What the claims about the tree speak of.                                *)
(***************************************************************************)
Built == tpc = "done" /\ result.found

\* Every node of a list of nodes, at any depth.
RECURSIVE NodesOf(_)
NodesOf(nodes) ==
    UNION {{nodes[k]} \cup NodesOf(nodes[k].children) : k \in DOMAIN nodes}

\* The number of levels of a list of nodes.
RECURSIVE Height(_)
Height(nodes) ==
    IF nodes = <<>> THEN 0
    ELSE LET below == {Height(nodes[k].children) : k \in DOMAIN nodes}
         IN  1 + CHOOSE h \in below : \A g \in below : g <= h

\* The metadata of the stored section of this id.
StoredSection(id) == db[StructuralId(id)].meta

StoredSectionIds == {db[i].meta.id : i \in SectionRows(db)}

\* The reference has ended and its state is not the in-force one.
ExpiredAndNotCurrent(ref) == ref.fin = PastDate /\ ref.etat # "VIGUEUR"

IdsOf(refs) == [k \in DOMAIN refs |-> refs[k].id]

\* C6: a child-section reference that has ended and is not in
\* force never appears as a node of the tree, wherever the section it
\* names comes from.
C6_ExpiredReferenceNeverANode ==
    Built =>
      \A p \in StoredSectionIds :
        \A k \in DOMAIN StoredSection(p).sous_sections :
          ExpiredAndNotCurrent(StoredSection(p).sous_sections[k]) =>
            \A n \in NodesOf(result.tree) :
                n.id # StoredSection(p).sous_sections[k].id

\* What the filter of line 229 does ensure: such a reference yields no child
\* of the node of its parent; the children of a node are, in order, sections
\* named by the references of its metadata that are open-ended or in force.
C6_ChildrenComeFromCurrentReferences ==
    Built =>
      \A n \in NodesOf(result.tree) :
        LET passing == SelectSeq(StoredSection(n.id).sous_sections,
                                 LAMBDA r : ~ExpiredAndNotCurrent(r))
            kids == {n.children[k].id : k \in DOMAIN n.children}
        IN  IdsOf(n.children) = IdsOf(SelectSeq(passing, LAMBDA r : r.id \in kids))

\* A built node whose metadata names a stored section by an expired
\* reference only, and has no child of that id.
C6_Witness ==
    /\ Built
    /\ \E n \in NodesOf(result.tree) :
         \E k \in DOMAIN StoredSection(n.id).sous_sections :
            LET r == StoredSection(n.id).sous_sections[k] IN
            /\ ExpiredAndNotCurrent(r)
            /\ r.id \in DOMAIN all_sections
            /\ \A c \in DOMAIN n.children : n.children[c].id # r.id

\* The references to section x in the metadata of the stored sections.
ReferencesTo(x) ==
    UNION {{<<p, k>> : k \in {j \in DOMAIN StoredSection(p).sous_sections :
                                 StoredSection(p).sous_sections[j].id = x}} :
              p \in StoredSectionIds}

StoredRoots == {db[i].meta.id : i \in {j \in SectionRows(db) : db[j].meta.parent = code_id}}

ChildrenOfLevel(level) ==
    UNION {{StoredSection(p).sous_sections[k].id :
               k \in DOMAIN StoredSection(p).sous_sections} : p \in level}

\* The number of levels below and including this one, in a section tree.
RECURSIVE LevelsFrom(_)
LevelsFrom(level) == IF level = {} THEN 0 ELSE 1 + LevelsFrom(ChildrenOfLevel(level))

\* The stored sections form a tree under the roots of the code: every
\* reference names a stored section, a root is named by none and any
\* other section by exactly one.
IsSectionTree ==
    /\ StoredRoots # {}
    /\ \A p \in StoredSectionIds :
          \A k \in DOMAIN StoredSection(p).sous_sections :
              StoredSection(p).sous_sections[k].id \in StoredSectionIds
    /\ \A x \in StoredSectionIds :
          Cardinality(ReferencesTo(x)) = IF x \in StoredRoots THEN 0 ELSE 1

TreeDepth == LevelsFrom(StoredRoots)

\* C7: for a section tree of depth D, whatever its branching, the build
\* issues at most D+1 batched fetches of sections, and its only other
\* query is the one of the header: none is issued during the assembly.
C7_AtMostDepthPlusOneFetches ==
    (Built /\ IsSectionTree) =>
      /\ fetches <= TreeDepth + 1
      /\ queries = fetches + 1

\* A tree of three levels with a branching of two has been built.
C7_Witness ==
    /\ Built
    /\ IsSectionTree
    /\ TreeDepth >= 3
    /\ \E p \in StoredSectionIds : Len(StoredSection(p).sous_sections) = 2
    /\ Cardinality(NodesOf(result.tree)) = Cardinality(StoredSectionIds)

\* C8: no node of a returned payload lies deeper than max_depth, the roots
\* being at depth 1; a store nested deeper still yields a payload.
C8_NoNodeBeyondMaxDepth ==
    (tpc = "done" /\ header.found) =>
      /\ result.found
      /\ Height(result.tree) <= max_depth

\* A chain of more than max_depth sections was loaded and built down to
\* depth max_depth.
C8_Witness ==
    /\ Built
    /\ Cardinality(DOMAIN all_sections) > max_depth
    /\ Height(result.tree) = max_depth

\* The validity rule, on an article reference.
Qualifies(art) == art.fin = OpenEnded \/ art.etat = "VIGUEUR"

QualifyingArticles(id) == SelectSeq(StoredSection(id).articles, Qualifies)

\* C9: a node carries exactly min(n, 500) articles, n being the number of
\* qualifying article references of its section: the first min(n, 500) of
\* them, in the order of the metadata; the list is a function of the store.
C9_FirstQualifyingArticlesUpToCap ==
    Built =>
      \A n \in NodesOf(result.tree) :
        LET q == QualifyingArticles(n.id) IN
        /\ Len(n.articles) = Min(Len(q), article_cap)
        /\ \A k \in DOMAIN n.articles :
              n.articles[k] = [id |-> q[k].id, num |-> q[k].num, titre |-> ""]

\* A section with more than 500 qualifying references, some not
\* qualifying among them, was built with 500 articles.
C9_Witness ==
    /\ Built
    /\ \E n \in NodesOf(result.tree) :
          /\ Len(QualifyingArticles(n.id)) > article_cap
          /\ Len(QualifyingArticles(n.id)) < Len(StoredSection(n.id).articles)
          /\ Len(n.articles) = article_cap

(***************************************************************************)
(* What the claims about the cache speak of.                               *)
(***************************************************************************)
\* get_stale_codes has just returned: no code was regenerated since.
JustSelected == cpc = "loop" /\ idx = 0 /\ asked.called

AgeOf(c) == clock - code_trees[c]

\* C10: without limit, a non-force call returns exactly the cached codes
\* older than the 24 hours of freshness, and a force call every cached
\* code, each once.
C10_StaleSelection ==
    (JustSelected /\ asked.limit = 0) =>
      /\ Range(stale) = IF asked.force THEN DOMAIN code_trees
                        ELSE {c \in DOMAIN code_trees : AgeOf(c) > freshness_hours}
      /\ Len(stale) = Cardinality(Range(stale))

\* Codes 25 h, 48 h and 1 h old: a non-force call without limit has
\* returned the first two.
C10_Witness ==
    /\ JustSelected
    /\ asked.limit = 0
    /\ ~asked.force
    /\ \E a, b, c \in DOMAIN code_trees :
          /\ AgeOf(a) = 25 /\ AgeOf(b) = 48 /\ AgeOf(c) = 1
          /\ Range(stale) = {a, b}

(***************************************************************************)
(* What the claims about a regeneration run speak of.                      *)
(***************************************************************************)
\* The regenerations that failed: by timeout, by code-not-found, by a
\* transient store error during the build or the cache write.
FailedRegenerations == {"timeout", "not_found", "build_error", "write_error"}

\* A turn of the loop of main has just been made.
Attempted == cpc = "loop" /\ idx > 0

\* C11: a code whose regeneration fails by timeout, by code-not-found or by
\* a transient store error is counted in error_count and not in
\* success_count.
C11_FailuresCountAsErrors ==
    [][(idx' = idx + 1 /\ last'.outcome \in FailedRegenerations) =>
          (error_count' = error_count + 1 /\ success_count' = success_count)]_vars

\* C12: whatever the earlier outcomes, the k-th turn of the loop attempts
\* the k-th selected code, each code once, and at the summary success_count
\* + error_count is the number of selected codes.
C12_EveryCodeAttemptedOnce ==
    cpc = "loop" =>
      /\ idx \in 0..Len(stale)
      /\ Cardinality(Range(stale)) = Len(stale)
      /\ idx > 0 => last.code = stale[idx]
      /\ success_count + error_count = idx
      /\ idx = Len(stale) => success_count + error_count = Len(stale)

\* Three codes were attempted, the first attempts not all successful, and
\* the run is at its summary.
C12_Witness ==
    /\ cpc = "loop"
    /\ Len(stale) = 3
    /\ idx = Len(stale)
    /\ error_count = 2
    /\ success_count = 1
    /\ last.ok

\* C13: the exit code tells the three ends of a run apart: two runs that
\* end differently (all succeeded, some failed, fatal) exit with different
\* codes.
C13_ExitCodeTellsOutcome ==
    [][(run_outcome # "" /\ run_outcome' # run_outcome) => exit_code' # exit_code]_vars

\* C14: after a successful regeneration the row of the code has a version
\* tag bumped from the one it had, and generated_at and updated_at at the
\* time of the regeneration.
C14_VersionBumpedOnSuccess ==
    (Attempted /\ last.outcome = "success") =>
      /\ code_cols[last.code].version # last.version_before
      /\ code_cols[last.code].generated_at = last.at
      /\ code_trees[last.code] = last.at

\* C15: the build finds no code exactly when no header document exists, no
\* row is written then, and regenerate_code hands its caller a result that
\* differs from that of a success and from that of a transient failure.
C15_NotFoundIsDistinct ==
    (Attempted /\ last.code \in code_stats
              /\ last.outcome \in {"not_found", "success"}) =>
      /\ last.outcome = "not_found" <=> ~HeaderQuery(db, last.code).found
      /\ last.outcome = "not_found" =>
            /\ code_trees[last.code] # last.at \/ clock # last.at
            /\ last.ok # regenerate_code("success")
            /\ last.ok # regenerate_code("build_error")

\* C16: a cached code whose header is not found is attempted only
\* finitely many times over the runs of the daily pipeline.
C16_NotFoundNotRetriedForever ==
    \A c \in CacheCodes :
        <>[] ~(Attempted /\ last.code = c /\ last.outcome = "not_found")

(***************************************************************************)
(* Two invocations of run.                                                 *)
(***************************************************************************)
\* The process is between _acquire_lock and _release_lock.
Inside1 == pc \notin {"idle", "killed"}
Inside2 == pc2 # "idle"

\* The step is an invocation that found the lock held.
Refused1 == todo' # todo /\ rc' = 2
Refused2 == pc2 = "idle" /\ rc2' = 2 /\ pc2' = "idle"

\* C17: of the invocations of run at most one is between the acquisition
\* and the release of the lock, and an invocation that finds the lock held
\* returns 2 and leaves the document store and the ingest state as they
\* were.
C17_OneInvocationHoldsTheLock ==
    /\ [](~(Inside1 /\ Inside2))
    /\ [](Inside1 \/ Inside2 => lock)
    /\ [][Refused1 => (lock /\ pc' = "idle" /\ UNCHANGED <<db, tx, state, lock>>)]_vars
    /\ [][lock /\ todo' # todo => rc' = 2]_vars
    /\ [][lock /\ pc2 = "idle" /\ <<pc2, rc2>>' # <<pc2, rc2>> =>
             (rc2' = 2 /\ pc2' = "idle" /\ UNCHANGED <<db, tx, state, lock>>)]_vars

\* The first process asked for the lock while the second held it, and was
\* refused.
C17_Witness ==
    /\ Inside2
    /\ pc = "idle"
    /\ rc = 2
    /\ todo # <<>>
    /\ db = EmptyTable
    /\ ~state["LEGI"].initialized

(***************************************************************************)
(* Two invocations of regenerate_stale_caches.py.                          *)
(***************************************************************************)
\* C18: of the invocations of the regeneration run at most one is
\* executing at any time.
C18_OneRegenerationRuns == ~(cpc = "loop" /\ cpc2 = "loop")

(***************************************************************************)
(* The ids of the rows.                                                    *)
(***************************************************************************)
\* The ids the pattern of _doc_id finds in the path of a row.
IdsInPath(r) == Range(PathWords(r.path)) \cap DocIdPattern

\* The id of the row is resolved by metadata, else by path, else by hash.
ResolvedInPriorityOrder(r) ==
    IF r.meta.id # "" THEN r.id = [k |-> "id", s |-> r.meta.id, p |-> <<>>]
    ELSE IF IdsInPath(r) # {} THEN r.id.k = "id" /\ r.id.s \in IdsInPath(r) /\ r.id.p = <<>>
    ELSE r.id = [k |-> "sha256", s |-> r.source, p |-> r.path.words \o <<r.path.ext>>]

\* Two rows of one source whose paths differ in the snapshot folder only.
SamePathButTimestamp(r1, r2) ==
    /\ r1.source = r2.source
    /\ r1.path.ts # r2.path.ts
    /\ r1.path.words = r2.path.words
    /\ r1.path.ext = r2.path.ext

\* C19 as stated: the id is resolved in the priority order, and two entries
\* of one source whose paths differ only in the timestamp prefix always get
\* the same id.
C19_SameIdForSamePath ==
    /\ \A i \in DOMAIN pending : ResolvedInPriorityOrder(pending[i])
    /\ \A i, j \in DOMAIN pending :
          SamePathButTimestamp(pending[i], pending[j]) => pending[i].id = pending[j].id

\* What holds of C19: the id is resolved in the priority order, and two
\* entries of one source whose paths differ only in the timestamp prefix
\* get the same id when their metadata carry the same structural id, or
\* none.
C19_SameIdForSamePathAndMetaId ==
    /\ \A i \in DOMAIN pending : ResolvedInPriorityOrder(pending[i])
    /\ \A i, j \in DOMAIN pending :
          (/\ SamePathButTimestamp(pending[i], pending[j])
           /\ pending[i].meta.id = pending[j].meta.id)
             => pending[i].id = pending[j].id

\* C20: two entries of an archive that stand for different entities, which
\* here are entries of different paths, get different ids, and after the
\* run each of them has its row.
C20_DifferentEntitiesDifferentIds ==
    /\ \A i, j \in DOMAIN pending :
          pending[i].path.words # pending[j].path.words => pending[i].id # pending[j].id
    /\ (pc = "idle" /\ rc = 0) =>
          \A a \in dir["LEGI"].freemium : \A k \in DOMAIN a.members :
              IsContent(a.members[k]) =>
                  \E id \in DOMAIN db : db[id].path.words = a.members[k].path.words

(***************************************************************************)
(* Entries that do not parse.                                              *)
(***************************************************************************)
\* The entries of the archives of LEGI.
EntriesOfLegi ==
    UNION {Range(a.members) : a \in dir["LEGI"].freemium \cup dir["LEGI"].incremental}

\* C21: an XML entry that does not parse gets a row marked parse_error that
\* holds the bytes of the entry as they are, and after the run every such
\* entry has its row.
C21_UnparsedEntryKeptAsItIs ==
    /\ \A i \in DOMAIN pending :
          pending[i].meta.parse_error =>
              \E m \in EntriesOfLegi :
                  m.path = pending[i].path /\ pending[i].content_xml = m.xml
    /\ (pc = "idle" /\ rc = 0) =>
          \A m \in EntriesOfLegi :
              (IsContent(m) /\ ~m.xml.ok) =>
                  \E id \in DOMAIN db :
                      /\ db[id].path = m.path
                      /\ db[id].meta.parse_error
                      /\ db[id].content_xml = m.xml

(***************************************************************************)
(* A row the server refuses.                                               *)
(***************************************************************************)
\* C22: a malformed entry of a batch fails alone: once the invocation is
\* over, every other content entry of the archives has its row (the
\* archives hold no suppression list that could have removed it).
C22_MalformedRowFailsAlone ==
    (/\ pc = "idle"
     /\ inv # NoInvocation
     /\ \A m \in EntriesOfLegi : ~IsManifest(m)) =>
        \A m \in EntriesOfLegi :
            (IsContent(m) /\ ~Malformed(Row("LEGI", m, 0))) =>
                \E id \in DOMAIN db : db[id].path = m.path

(***************************************************************************)
(* The store fails under a run.                                            *)
(***************************************************************************)
\* The run ends with a traceback in this step.
Aborts == rc' = traceback_code /\ (rc # traceback_code \/ pc # "idle")

\* C23: when a store operation fails while an archive is ingested the run
\* is over: the lock is released, the open transaction is gone, the state
\* is as it was, so last_incremental does not name the failed archive, and
\* the archives that were still to come are not touched until another
\* invocation starts.
C23_StoreFailureAbortsRun ==
    /\ [][Aborts => (/\ pc' = "idle"
                     /\ ~lock'
                     /\ state' = state
                     /\ db' = db
                     /\ tx' = db
                     /\ archives' = archives)]_vars
    /\ []((pc = "idle" /\ rc = traceback_code /\ archive.folder = "incremental") =>
             state[source].last_incremental # archive.key)
    /\ [][(pc = "idle" /\ rc = traceback_code) =>
             (pc' = "idle" \/ todo' # todo)]_vars

\* The store failed under the first of two incrementals, after the
\* freemium had been ingested.
C23_Witness ==
    /\ pc = "idle"
    /\ rc = traceback_code
    /\ ~lock
    /\ archive.folder = "incremental"
    /\ archives # <<>>
    /\ state["LEGI"].initialized
    /\ state["LEGI"].last_incremental = 0
    /\ db # EmptyTable

(***************************************************************************)
(* _upsert_documents on a batch.                                           *)
(***************************************************************************)
\* executemany has written every row of pending and the commit is to come:
\* db is the table as it was before the batch.
BatchWritten == pc \in {"upsert", "upsert_final"} /\ written = Len(pending)

IdsOfBatch == {pending[i].id : i \in DOMAIN pending}

\* The last record of the batch with the id.
LastOfBatch(id) ==
    pending[CHOOSE i \in DOMAIN pending :
                /\ pending[i].id = id
                /\ \A j \in DOMAIN pending : pending[j].id = id => j <= i]

\* C24: after _upsert_documents the row of every id of the batch is the
\* last record of the batch with that id, in every column, and every other
\* row is as it was.
C24_BatchOverwritesItsIdsOnly ==
    BatchWritten =>
        /\ DOMAIN tx = DOMAIN db \cup IdsOfBatch
        /\ \A id \in IdsOfBatch : tx[id] = LastOfBatch(id)
        /\ \A id \in DOMAIN db \ IdsOfBatch : tx[id] = db[id]

\* A batch with two different records of one id is written to a table that
\* holds that id and another.
C24_Witness ==
    /\ BatchWritten
    /\ Len(pending) = 2
    /\ pending[1].id = pending[2].id
    /\ pending[1] # pending[2]
    /\ pending[1].id \in DOMAIN db
    /\ DOMAIN db \ IdsOfBatch # {}

(***************************************************************************)
(* _delete_by_tokens on the tokens of a manifest.                          *)
(***************************************************************************)
\* The tokens of the manifest just applied.
AppliedTokens == _parse_suppression_list(AppliedManifest.lines)

\* The id a token carries, "" when it carries none.
IdIn(token) == FirstMatch(DeleteIdPattern, token)

\* The row is one the token asks to delete.
Names(token, row) ==
    IF IdIn(token) # "" THEN row.meta.id = IdIn(token)
    ELSE SlowDeleteMatches(row, row.source, <<token>>)

\* The places in ids where a statement of the fast path starts.
BatchStarts(ids) == {i \in 1..Len(ids) : i % 1000 = 1}

\* C25: a row is deleted only if one of the first 5000 tokens of the
\* manifest names it, and every statement of the fast path carries at
\* most 1000 ids.
C25_TokenCapAndBatchlimit ==
    pc = "commit_manifest" =>
        /\ \A id \in DOMAIN db \ DOMAIN tx :
              \E k \in 1..Min(Len(AppliedTokens), 5000) : Names(AppliedTokens[k], db[id])
        /\ \A i \in BatchStarts(ids_to_delete(AppliedTokens)) :
              /\ Len(fast_batch(ids_to_delete(AppliedTokens), i)) <= 1000
              /\ Len(fast_batch(ids_to_delete(AppliedTokens), i)) >= 1

\* A manifest of 5001 tokens is applied: the row its 1001st token names is
\* deleted, in the second statement, and the row its last token names stays.
C25_Witness ==
    /\ pc = "commit_manifest"
    /\ Len(AppliedTokens) = 5001
    /\ \E id \in DOMAIN db \cap DOMAIN tx : Names(AppliedTokens[5001], db[id])
    /\ \E id \in DOMAIN db \ DOMAIN tx : Names(AppliedTokens[1001], db[id])
    /\ Len(ids_to_delete(AppliedTokens)) > 1000

\* The processed tokens of the manifest just applied.
Processed == Take(AppliedTokens, 5000)

\* The token is in the path of the row or in its serialized metadata.
SubstringOf(token, row) ==
    LET t == LowerAll(token) IN
    \/ OccursIn(t, LowerAll(PathWords(row.path) \o <<row.path.ext>>))
    \/ Len(t) = 1 /\ t[1] \in {Lower(w) : w \in MetaWords(row.meta)}

\* What holds of the routing: every processed token is in exactly one of
\* the two lists, in ids_to_delete if and only if it carries an id.
C26_RoutedToOnePath ==
    pc = "commit_manifest" =>
        LET fast == Range(ids_to_delete(AppliedTokens))
            slow == Range(tokens_without_id(AppliedTokens))
            processed == Range(Processed)
        IN  /\ Len(ids_to_delete(AppliedTokens)) + Len(tokens_without_id(AppliedTokens))
                  = Len(Processed)
            /\ \A t \in processed :
                  IF IdIn(t) # "" THEN IdIn(t) \in fast /\ t \notin slow
                  ELSE t \in slow

\* C26: every processed token goes to one path, the fast one if and only
\* if it carries an id, and a token without an id deletes by substring: the
\* rows deleted are those of the source with the id of a token as metadata
\* id or with a token without id in their path or serialized metadata.
C26_FastByIdSlowBySubstring ==
    pc = "commit_manifest" =>
        /\ Len(ids_to_delete(AppliedTokens)) + Len(tokens_without_id(AppliedTokens))
              = Len(Processed)
        /\ DOMAIN db \ DOMAIN tx =
              {id \in DOMAIN db :
                  /\ db[id].source = source
                  /\ \E k \in DOMAIN Processed :
                        IF IdIn(Processed[k]) # "" THEN db[id].meta.id = IdIn(Processed[k])
                        ELSE SubstringOf(Processed[k], db[id])}

(***************************************************************************)
(* A run of precalculate_all_trees.py.                                     *)
(***************************************************************************)
\* The step is a turn of the loop of precalculate_all.
Turn == cpc = "precalc" /\ idx' = idx + 1

\* The code of the turn has a row of the current version, updated less than
\* 24 hours ago.
FreshCurrentRow(c) ==
    /\ c \in DOMAIN code_trees
    /\ clock - code_trees[c] < 24
    /\ code_cols[c].version = "2.0"

\* C27: without force, a code whose row has the current version and is
\* inside the freshness window is skipped: it is counted in skip_count, not
\* built, and its row is left as it is; with force no code is skipped.
C27_FreshCurrentRowIsSkipped ==
    [][Turn =>
         LET c == stale[idx + 1] IN
         /\ (~asked.force /\ FreshCurrentRow(c)) =>
               /\ skip_count' = skip_count + 1
               /\ last'.outcome = "skipped"
               /\ success_count' = success_count
               /\ error_count' = error_count
               /\ code_trees' = code_trees
               /\ code_cols' = code_cols
         /\ asked.force =>
               /\ skip_count' = skip_count
               /\ last'.outcome # "skipped"]_vars

\* A run without force has skipped a code and rebuilt another, whose row
\* was fresh but of the earlier version.
C27_Witness ==
    /\ cpc = "precalc"
    /\ ~asked.force
    /\ skip_count = 1
    /\ success_count = 1
    /\ last.outcome = "skipped"
    /\ \E c \in DOMAIN code_trees : code_trees[c] = clock /\ c # last.code

(***************************************************************************)
(* Who writes which table.                                                 *)
(***************************************************************************)
\* The documents, as committed and as the open transaction sees them.
Documents == <<db, tx>>

\* The rows of code_trees.
TreeCache == <<code_trees, code_cols>>

\* What ingest_legifrance_pg.py keeps besides the documents.
IngestionProgress ==
    <<lock, state, dir, todo, inv, pc, rc, srcs, source, archives, archive,
      members, pending, written, base, commits>>

\* The step is one of ingest_legifrance_pg.py.
IngestionStep == IngestionProgress' # IngestionProgress

\* The step is one of a regeneration run or of a run of the materializer.
MaterializerStep == cacheVars' # cacheVars

\* The step is one of build_tree_optimized.
BuildStep == treeVars' # treeVars

\* C28: the documents change only in a step of the ingestion (an upsert, a
\* suppression or their commit or rollback) and the rows of code_trees only
\* in a step of the materializer that saved a tree: a build and a
\* regeneration run leave the documents as they are, and the ingestion
\* leaves every row of code_trees as it is.
C28_EachTableHasItsWriter ==
    [][/\ Documents' # Documents =>
             IngestionStep /\ ~MaterializerStep /\ ~BuildStep
       /\ TreeCache' # TreeCache =>
             MaterializerStep /\ last'.outcome = "success" /\ ~IngestionStep
       /\ (MaterializerStep \/ BuildStep) => Documents' = Documents
       /\ IngestionStep => TreeCache' = TreeCache]_vars

\* The ingestion has committed documents, a tree was built and a row of
\* code_trees was saved again.
C28_Witness ==
    /\ db # ChainStore(2, FALSE)
    /\ tpc = "done"
    /\ \E c \in DOMAIN code_trees : code_trees[c] = clock

(***************************************************************************)
(* The exit code of daily_pipeline.py.                                     *)
(***************************************************************************)
\* main has returned a value: no exception of subprocess.run has left it.
PipelineExited == ppc = "idle" /\ pipeline_rc \notin {-1, traceback_code}

\* The run was refused at the lock: it has no report and the file is there.
RefusedAtLock == pipeline_lock

\* The step st ran and its child did not end well.
StepFailed(st) ==
    /\ st \in DOMAIN report.steps
    /\ IF st = "integrity" THEN report.steps[st] \notin {"0", "2"}
       ELSE report.steps[st] # "0"

\* The code the docstring lists for the first step that failed; 0 when none.
DocumentedCode ==
    CASE RefusedAtLock -> 2
      [] StepFailed("download_incremental") -> 3
      [] StepFailed("integrity") -> 4
      [] StepFailed("ingest_pg_daily") -> 5
      [] StepFailed("compute_code_stats") -> 6
      [] StepFailed("regenerate_caches") -> 8
      [] report.sanity_ok = "false" -> 7
      [] OTHER -> 0

\* C29: the pipeline exits with the code its docstring lists for the step
\* that failed (2 lock, 3 download, 4 integrity, 5 ingest, 6 compute_stats,
\* 7 sanity, 8 cache regeneration), and with 0 only when no step failed.
C29_ExitCodeNamesTheFailedStep ==
    PipelineExited => pipeline_rc = DocumentedCode

(***************************************************************************)
(* The archives a run selects.                                             *)
(***************************************************************************)
\* The step is the selection of the archives of a source.
Selects == pc = "sources" /\ pc' = "archives"

\* The incrementals of the directory dated after the recorded one.
StrictlyAfter(incr, recorded) == {a \in incr : _date_key(a) > recorded}

\* The archive the state records is in the directory.
RecordedIsThere(src) ==
    \E a \in dir[src].incremental : _date_key(a) = state[src].last_incremental

\* What the claim says of the selection of a source.
ClaimedSelection(src, runmode) ==
    IF runmode = "init"
      THEN SortedByKey(dir[src].freemium) \o SortedByKey(dir[src].incremental)
    ELSE IF state[src].last_incremental = 0 THEN <<>>
    ELSE SortedByKey(StrictlyAfter(dir[src].incremental, state[src].last_incremental))

\* What holds of C30: the selection is the claimed one in init mode, and in
\* daily mode when nothing is recorded or the recorded archive is still in
\* the directory.
C30_SelectionWhenRecordedIsThere ==
    [][(Selects /\ (inv.mode = "init" \/ state[source'].last_incremental = 0
                    \/ RecordedIsThere(source')))
          => archives' = ClaimedSelection(source', inv.mode)]_vars

\* C30: init selects the freemium archives and then every incremental in
\* the order of the date keys; daily selects exactly the incrementals dated
\* strictly after the recorded last_incremental, in that order, and nothing
\* when none is recorded.
C30_SelectionInDateOrder ==
    [][Selects => archives' = ClaimedSelection(source', inv.mode)]_vars

(***************************************************************************)
(* The loop of the waves.                                                  *)
(***************************************************************************)
\* The ids of the sections loaded so far.
Loaded == DOMAIN all_sections

\* The frontier holds nothing that is loaded, and no more than max_waves
\* waves have run.
FrontierIsNew ==
    tpc = "waves" => remaining_ids \cap Loaded = {} /\ wave_num <= max_waves

\* A loaded section stays loaded, with the data it was loaded with.
LoadedGrows ==
    /\ Loaded \subseteq DOMAIN all_sections'
    /\ \A x \in Loaded : all_sections'[x] = all_sections[x]

\* From the loop, the next step is a wave when the frontier is not empty and
\* fewer than max_waves waves have run, and the end of the loop otherwise.
WaveOrStop ==
    tpc = "waves" =>
       IF remaining_ids = {} \/ wave_num >= max_waves
         THEN tpc' = "done" /\ wave_num' = wave_num
         ELSE tpc' = "waves" /\ wave_num' = wave_num + 1

\* C31: at the start of every wave the frontier holds no loaded id, the
\* loaded sections only grow, the loop stops as soon as the frontier is
\* empty or max_waves waves have run, and so it ends for every graph of
\* references, cyclic ones and ones that name absent sections included.
C31_WaveLoopEnds ==
    /\ []FrontierIsNew
    /\ [][LoadedGrows /\ WaveOrStop]_vars
    /\ (tpc = "waves") ~> (tpc = "done")

\* The loop was left after max_waves waves with ids still to fetch.
C31_Witness ==
    /\ tpc = "done"
    /\ wave_num = max_waves
    /\ remaining_ids # {}
    /\ Cardinality(Loaded) = max_waves + 1

(***************************************************************************)
(* The assembly over references that form a cycle.                         *)
(***************************************************************************)
\* The ids of the nodes below a node.
IdsBelow(n) == {d.id : d \in NodesOf(n.children)}

\* C32: the assembly ends, and a section is never built again below itself:
\* no node of the tree has an ancestor of its own id.
C32_NoNodeBelowItself ==
    Built => \A n \in NodesOf(result.tree) : n.id \notin IdsBelow(n)

(***************************************************************************)
(* The incrementals that arrive after the init.                            *)
(***************************************************************************)
\* The incremental of date key k is in the directory of LEGI.
InDirectory(k) == \E a \in dir["LEGI"].incremental : _date_key(a) = k

\* LEGI is initialized and the incremental of date key k, later than the
\* recorded one (than all, when none is recorded), waits in the directory.
Awaits(k) ==
    /\ state["LEGI"].initialized
    /\ InDirectory(k)
    /\ k > state["LEGI"].last_incremental

\* A run has ingested the incremental of date key k to its end.
IngestedNow(k) ==
    pc = "archive_done" /\ archive.folder = "incremental" /\ _date_key(archive) = k

\* C33: after an init, an incremental that is in the directory with a date
\* key later than the recorded one is ingested by a later daily run, unless
\* it is deleted first; this also when the init found no incremental and
\* when the recorded archive is not in the directory any more.
C33_LaterIncrementalsGetIngested ==
    \A k \in RemoteKeys : Awaits(k) ~> (IngestedNow(k) \/ ~InDirectory(k))

(***************************************************************************)
(* The ingest state as a checkpoint.                                       *)
(***************************************************************************)
\* The state file is written only when an archive has been read to its end
\* and nothing of it waits for a commit.
WrittenAfterCommits ==
    state' # state =>
       /\ pc = "archive_done"
       /\ members = <<>>
       /\ pending = <<>>
       /\ tx = db
       /\ \A s \in Sources : state'[s].last_incremental # state[s].last_incremental =>
             /\ s = source
             /\ archive.folder = "incremental"
             /\ state'[s].last_incremental = _date_key(archive)

\* last_incremental moves forward in the order of the date keys.
MovesForward ==
    \A s \in Sources : state'[s].last_incremental >= state[s].last_incremental

\* A run has ended in the middle of the incremental of date key k of LEGI,
\* terminated or left by an exception, and a daily run is to come.
EndedInside(k) ==
    /\ \/ pc = "killed"
       \/ pc = "idle" /\ rc = traceback_code
    /\ source = "LEGI"
    /\ archive.folder = "incremental"
    /\ _date_key(archive) = k
    /\ todo # <<>>
    /\ Head(todo).mode = "daily"

\* A run opens the incremental of date key k of LEGI at its first entry.
OpensAgain(k) ==
    /\ pc = "members"
    /\ source = "LEGI"
    /\ archive.folder = "incremental"
    /\ _date_key(archive) = k
    /\ members = archive.members
    /\ inv.mode = "daily"

\* What holds of C34: the state is written after the commits of the archive
\* it records, and last_incremental moves forward.
C34_StateWrittenAfterCommits == [][WrittenAfterCommits /\ MovesForward]_vars

\* C34: the state records an archive only after every batch and manifest
\* of it is committed, last_incremental only moves forward, and so a run
\* that ended in the middle of an archive is followed by a daily run that
\* ingests this archive again from its first entry.
C34_CheckpointAndResume ==
    /\ [][WrittenAfterCommits /\ MovesForward]_vars
    /\ \A k \in 1..3 : EndedInside(k) ~> OpensAgain(k)

(***************************************************************************)
(* The locks of the ingestion and of the pipeline.                         *)
(***************************************************************************)
\* A run of the ingestion that had the lock is over.
IngestRunOver == pc = "idle" /\ inv # NoInvocation /\ rc # 2

\* A run of the pipeline that had the lock is over.
PipelineRunOver == ppc = "idle" /\ pipeline_rc \notin {-1, 2}

\* The step is an invocation of the ingestion refused at the lock.
IngestRefused == todo' # todo /\ rc' = 2

\* The step is an invocation of the pipeline refused at the lock.
PipelineRefused == ppc = "idle" /\ pipeline_rc' = 2 /\ ppc' = "idle"

\* C35: a run of the ingestion or of the pipeline that acquired its lock
\* has released it when it is over, whether it returned or was left by an
\* exception, so that a later invocation can acquire it; an invocation
\* refused at the lock leaves the lock file where it is.
C35_LockReleasedOnEveryPath ==
    /\ [](IngestRunOver => ~lock)
    /\ [](PipelineRunOver => ~pipeline_lock)
    /\ [][IngestRefused => lock /\ lock']_vars
    /\ [][PipelineRefused => pipeline_lock /\ pipeline_lock']_vars

(***************************************************************************)
(* Tokens that carry several ids.                                          *)
(***************************************************************************)
\* The places of a token where an id stands.
IdPlaces(token) == {i \in DOMAIN token : token[i] \in DeleteIdPattern}

\* The leftmost id of a token that carries one.
LeftmostId(token) ==
    token[CHOOSE i \in IdPlaces(token) : \A j \in IdPlaces(token) : i <= j]

\* The leftmost ids of the tokens of the manifest just applied.
LeftmostIds ==
    {LeftmostId(AppliedTokens[k]) :
        k \in {j \in DOMAIN AppliedTokens : IdPlaces(AppliedTokens[j]) # {}}}

IdPlacesOfPath(path) ==
    {i \in DOMAIN PathWords(path) : PathWords(path)[i] \in DocIdPattern}

\* The id an entry without metadata gets: the leftmost id of its path, or
\* the hash of its source and path.
IdFromPath(src, path) ==
    IF IdPlacesOfPath(path) = {} THEN HashId(src, path)
    ELSE StructuralId(PathWords(path)[CHOOSE i \in IdPlacesOfPath(path) :
                                         \A j \in IdPlacesOfPath(path) : i <= j])

\* The metadata of an entry that did not parse.
ParseErrorMarker(src) == [NoMeta EXCEPT !.parse_error = TRUE, !.source = src]

\* The upsert writes the row of an entry that did not parse.
WritesUnparsed ==
    /\ pc \in {"upsert", "upsert_final"}
    /\ written' = written + 1
    /\ pending[written + 1].meta.parse_error

\* C37: the row of an entry that does not parse has the id of the first id
\* in its path, or the hash of the path, and its upsert leaves under that id,
\* whether a row was there or not, the parse-error marker as metadata and
\* the empty text.
C37_UnparsedEntryReplacesRow ==
    [][WritesUnparsed =>
          LET row == pending[written + 1] IN
          /\ row.id = IdFromPath(row.source, row.path)
          /\ row.id \in DOMAIN tx'
          /\ tx'[row.id].meta = ParseErrorMarker(row.source)
          /\ tx'[row.id].content_text = ""
          /\ tx'[row.id].path = row.path]_vars

\* The version of the code LEGITEXT1 was written, then an article of its
\* folder that does not parse: the row of the code now carries the marker.
C37_Witness ==
    /\ pc \in {"upsert", "upsert_final"}
    /\ written = 2
    /\ pending[1] = Row("LEGI", VersionEntry, pending[1].updated_at)
    /\ pending[2].meta.parse_error
    /\ pending[2].id = pending[1].id
    /\ tx[pending[1].id].meta = ParseErrorMarker("LEGI")
    /\ tx[pending[1].id].content_text = ""

(***************************************************************************)
(* A manifest and the documents of the other sources.                      *)
(***************************************************************************)
\* C38: the manifest of a source deletes, by id and by text, only documents
\* of that source: a row that is gone had the source of the manifest, and
\* every row of another source is there as it was.
C38_DeletesOnlyItsSource ==
    pc = "commit_manifest" =>
        /\ DOMAIN tx \subseteq DOMAIN db
        /\ \A id \in DOMAIN db \ DOMAIN tx : db[id].source = source
        /\ \A id \in DOMAIN db :
              db[id].source # source => (id \in DOMAIN tx /\ tx[id] = db[id])

\* A manifest of JORF whose token without id is in the path of every
\* article was applied: an article of JORF is gone, the article of LEGI is
\* there.
C38_Witness ==
    /\ pc = "commit_manifest"
    /\ source = "JORF"
    /\ tokens_without_id(AppliedTokens) # <<>>
    /\ \E id \in DOMAIN db \ DOMAIN tx : db[id].source = "JORF"
    /\ \E id \in DOMAIN tx :
          /\ tx[id].source = "LEGI"
          /\ SlowDeleteAnySource(tx[id], source, tokens_without_id(AppliedTokens))

(***************************************************************************)
(* The sections the tree has to show.                                      *)
(***************************************************************************)
\* The nodes of a list of nodes with their depths, the list being at depth d.
RECURSIVE NodesAt(_, _)
NodesAt(nodes, d) ==
    UNION {{<<nodes[k], d>>} \cup NodesAt(nodes[k].children, d + 1) : k \in DOMAIN nodes}

\* The ids a stored section names by references that pass the validity
\* rule and whose section is in the store, in the order of its list.
LiveChildren(p) ==
    IdsOf(SelectSeq(StoredSection(p).sous_sections,
                    LAMBDA r : (r.fin = OpenEnded \/ r.etat = "VIGUEUR")
                               /\ r.id \in StoredSectionIds))

\* C39: every root section of the code is a root of the tree, and a node
\* reached from a root by fewer than 9 references has as children, in the
\* order of its reference list, the stored sections its valid references
\* name: so every stored section at the end of a chain of at most 9 valid
\* references from a root is in the tree at that place.
C39_LiveSectionsAreInTheTree ==
    Built =>
      /\ {result.tree[k].id : k \in DOMAIN result.tree} = StoredRoots
      /\ \A nd \in NodesAt(result.tree, 1) :
            nd[2] <= max_depth - 1 => IdsOf(nd[1].children) = LiveChildren(nd[1].id)

\* A chain of sections: the tenth is in the tree, 9 references below the
\* root, under the ninth.
C39_Witness ==
    /\ Built
    /\ \E nd \in NodesAt(result.tree, 1) :
          /\ nd[2] = max_depth - 1
          /\ nd[1].id = S(max_depth - 1)
          /\ IdsOf(nd[1].children) = <<S(max_depth)>>

====
